---- MODULE Spec2Model ----
(***************************************************************************)
(* Model of the levitate API core:                                         *)
(*   - middleware.RateLimiter (sliding-window admission control),          *)
(*   - services.AdminService (NGO registration workflow and audit trail).  *)
(* SpecRL runs concurrent requests through one RateLimiter; Spec runs the  *)
(* AdminService operations one call at a time; SpecConc runs concurrent    *)
(* RegisterNGO calls on one AdminService instance.                         *)
(***************************************************************************)
EXTENDS Integers, Sequences, FiniteSets, TLC

VARIABLES
    \* ---- middleware.RateLimiter ----
    ipLimits,     \* rl.ipLimits: map from caller IP to its recorded timestamps
    enabled,      \* rl.enabled
    mutex,        \* the embedded sync.Mutex: the goroutine holding it, or NoProc
    clock,        \* the wall clock read by time.Now()
    pc,           \* per request goroutine: its position in the RateLimit handler
    ip,           \* per request goroutine: c.ClientIP()
    now,          \* per request goroutine: the local `now`
    resp,         \* per request goroutine: status and X-RateLimit-* headers written
    admissions,   \* history: per caller, the `now` of every request passed on by an enabled limiter
    \* ---- services.AdminService and the services it holds ----
    ngoRegistrations,  \* s.ngoRegistrations
    ngos,              \* s.ngos
    auditLogs,         \* s.auditLogs
    dsNgos,            \* s.donationService.ngos
    dsDonations,       \* s.donationService.donations
    dsReceipts,        \* s.donationService.receipts
    expenses,          \* s.expenseService.expenses
    call,              \* the last AdminService call made one at a time: operation, arguments, results
    \* ---- goroutines running RegisterNGO concurrently ----
    rpc,          \* per goroutine: its position in RegisterNGO
    rreq,         \* per goroutine: req.CNPJ
    rloc,         \* per goroutine: the locals registrationID, the slice read by append, logID
    rret,         \* per goroutine: the returned (registration, error)
    \* ---- goroutines running ApproveNGO, and a reader, concurrently ----
    apc,          \* per goroutine: its position in ApproveNGO
    aloc,         \* per goroutine: the arguments and the locals registration, regIndex, blockchainRef, ngo
    aret,         \* per goroutine: the returned (ngo, error)
    rdpc,         \* the reader's position
    obs,          \* the reader's results: the registration read, then the organizations listed
    \* ---- a pure function called on its own ----
    fin,          \* the arguments of the call
    fout,         \* the value it returned
    \* ---- routes.SetupRoutes: the two limiters and the requests served through them ----
    publicRateLimiter,  \* the limiter of the public route group
    adminRateLimiter,   \* the limiter of the /admin route group
    served,             \* how many HTTP requests were served
    httpResp,           \* the last request served and the status written for it
    \* ---- goroutines running ExpenseService.RegisterExpense concurrently ----
    epc,          \* per goroutine: its position in RegisterExpense
    ereq,         \* per goroutine: the request
    eloc,         \* per goroutine: the locals donation, totalExpenses, expenseID
    eret          \* per goroutine: the returned (response, error)

rlVars == <<ipLimits, enabled, mutex, clock, pc, ip, now, resp, admissions>>
svcVars == <<ngoRegistrations, ngos, auditLogs, dsNgos, dsDonations, dsReceipts, expenses>>
goVars == <<rpc, rreq, rloc, rret>>
apVars == <<apc, aloc, aret, rdpc, obs>>
fnVars == <<fin, fout>>
rtVars == <<publicRateLimiter, adminRateLimiter, served, httpResp>>
exVars == <<epc, ereq, eloc, eret>>
adminVars == <<svcVars, call, goVars, apVars, fnVars, rtVars, exVars>>
vars == <<rlVars, adminVars>>

-----------------------------------------------------------------------------
(* Bounds of the model *)

MaxRequests == 2    \* rl.maxRequests (N) of the limiter under test
WindowLength == 2   \* rl.windowLength (W) in clock ticks
MaxTime == 2        \* the clock runs over 0..MaxTime
MaxAdmissions == 3  \* no further request of a caller arrives once this many of its requests were admitted

Procs == {"g1", "g2"}   \* concurrent request goroutines
NoProc == "none"
Callers == {"ipA", "ipB"}
Time == 0..MaxTime
Unset == 0 - 1

-----------------------------------------------------------------------------
(* middleware.RateLimiter *)

\* t.After(validTime) with a mistaken comparison: keeps a timestamp equal to the cutoff
AfterOrEqual(t, validTime) == t >= validTime

\* t.After(validTime)
After(t, validTime) == t > validTime

RECURSIVE ValidRequestsNewestFirst(_, _)
\* a collecting loop that puts each retained timestamp in front of the ones after it
ValidRequestsNewestFirst(ts, validTime) ==
    IF ts = << >> THEN << >>
    ELSE IF After(Head(ts), validTime)
         THEN ValidRequestsNewestFirst(Tail(ts), validTime) \o <<Head(ts)>>
         ELSE ValidRequestsNewestFirst(Tail(ts), validTime)

RECURSIVE ValidRequests(_, _)
\* the loop collecting the timestamps still inside the window
ValidRequests(ts, validTime) ==
    IF ts = << >> THEN << >>
    ELSE IF After(Head(ts), validTime)
         THEN <<Head(ts)>> \o ValidRequests(Tail(ts), validTime)
         ELSE ValidRequests(Tail(ts), validTime)

\* a limit test that lets one request too many through
LimitExceeded(n) == n > MaxRequests

\* len(rl.ipLimits[ip]) >= rl.maxRequests
LimitReached(n) == n >= MaxRequests

\* resetTime := validTime.Add(rl.windowLength)
ResetTime(validTime) == validTime + WindowLength

\* a Lock() that never blocks
MutexIgnored == TRUE

\* rl.Lock() can return only while nobody holds the mutex
MutexFree == mutex = NoProc

NoResp == [status |-> "none", limit |-> Unset, remaining |-> Unset, reset |-> Unset]

RLInit ==
    /\ ipLimits = << >>
    /\ enabled = TRUE
    /\ mutex = NoProc
    /\ clock = 0
    /\ pc = [p \in Procs |-> "idle"]
    /\ ip = [p \in Procs |-> "ipA"]
    /\ now = [p \in Procs |-> 0]
    /\ resp = [p \in Procs |-> NoResp]
    /\ admissions = [c \in Callers |-> << >>]

\* time passes
Tick ==
    /\ clock < MaxTime
    /\ clock' = clock + 1
    /\ UNCHANGED <<ipLimits, enabled, mutex, pc, ip, now, resp, admissions, adminVars>>

\* a request of caller c arrives and the handler tests rl.enabled (without the lock)
RLEnter(p, c) ==
    /\ pc[p] = "idle"
    /\ Len(admissions[c]) < MaxAdmissions
    /\ ip' = [ip EXCEPT ![p] = c]
    /\ pc' = [pc EXCEPT ![p] = IF enabled THEN "lock" ELSE "nextOff"]
    /\ UNCHANGED <<ipLimits, enabled, mutex, clock, now, resp, admissions, adminVars>>

\* limiter off: c.Next() and return (the goroutine ends and its locals are gone)
RLNextOff(p) ==
    /\ pc[p] = "nextOff"
    /\ pc' = [pc EXCEPT ![p] = "idle"]
    /\ ip' = [ip EXCEPT ![p] = "ipA"]
    /\ UNCHANGED <<ipLimits, enabled, mutex, clock, now, resp, admissions, adminVars>>

\* rl.Lock()
RLLock(p) ==
    /\ pc[p] = "lock"
    /\ MutexFree
    /\ mutex' = p
    /\ pc' = [pc EXCEPT ![p] = "prune"]
    /\ UNCHANGED <<ipLimits, enabled, clock, ip, now, resp, admissions, adminVars>>

\* now := time.Now(); drop the timestamps at or before now - windowLength
RLPrune(p) ==
    /\ pc[p] = "prune"
    /\ now' = [now EXCEPT ![p] = clock]
    /\ LET validTime == clock - WindowLength
           kept == IF ip[p] \in DOMAIN ipLimits
                   THEN ValidRequests(ipLimits[ip[p]], validTime)
                   ELSE << >>
       IN ipLimits' = [c \in DOMAIN ipLimits \cup {ip[p]} |->
                          IF c = ip[p] THEN kept ELSE ipLimits[c]]
    /\ pc' = [pc EXCEPT ![p] = "check"]
    /\ UNCHANGED <<enabled, mutex, clock, ip, resp, admissions, adminVars>>

\* the limit test; over the limit: headers, 429 and return
RLCheck(p) ==
    /\ pc[p] = "check"
    /\ IF LimitReached(Len(ipLimits[ip[p]]))
       THEN /\ resp' = [resp EXCEPT ![p] =
                           [status |-> "429", limit |-> MaxRequests, remaining |-> 0,
                            reset |-> ResetTime(now[p] - WindowLength)]]
            /\ pc' = [pc EXCEPT ![p] = "unlock"]
       ELSE /\ pc' = [pc EXCEPT ![p] = "append"]
            /\ UNCHANGED resp
    /\ UNCHANGED <<ipLimits, enabled, mutex, clock, ip, now, admissions, adminVars>>

\* rl.ipLimits[ip] = append(rl.ipLimits[ip], now) and the informative headers
RLAppend(p) ==
    /\ pc[p] = "append"
    /\ ipLimits' = [ipLimits EXCEPT ![ip[p]] = Append(@, now[p])]
    /\ resp' = [resp EXCEPT ![p] =
                   [status |-> "none", limit |-> MaxRequests,
                    remaining |-> MaxRequests - Len(ipLimits'[ip[p]]), reset |-> Unset]]
    /\ pc' = [pc EXCEPT ![p] = "next"]
    /\ UNCHANGED <<enabled, mutex, clock, ip, now, admissions, adminVars>>

\* c.Next(): the admitted request runs its downstream handlers
RLNext(p) ==
    /\ pc[p] = "next"
    /\ resp' = [resp EXCEPT ![p].status = "next"]
    /\ admissions' = [admissions EXCEPT ![ip[p]] = Append(@, now[p])]
    /\ pc' = [pc EXCEPT ![p] = "unlock"]
    /\ UNCHANGED <<ipLimits, enabled, mutex, clock, ip, now, adminVars>>

\* the deferred rl.Unlock() as the handler returns (the goroutine ends and its locals are gone)
RLUnlock(p) ==
    /\ pc[p] = "unlock"
    /\ mutex' = IF mutex = p THEN NoProc ELSE mutex
    /\ pc' = [pc EXCEPT ![p] = "idle"]
    /\ ip' = [ip EXCEPT ![p] = "ipA"]
    /\ now' = [now EXCEPT ![p] = 0]
    /\ resp' = [resp EXCEPT ![p] = NoResp]
    /\ UNCHANGED <<ipLimits, enabled, clock, admissions, adminVars>>

\* a SetEnabled that starts from a clean slate whenever the limiter is switched
SetEnabledClearing(b) ==
    /\ mutex = NoProc
    /\ enabled' = b
    /\ ipLimits' = IF b # enabled THEN << >> ELSE ipLimits
    /\ UNCHANGED <<mutex, clock, pc, ip, now, resp, admissions, adminVars>>

\* rl.SetEnabled(b): Lock, write, Unlock
SetEnabled(b) ==
    /\ MutexFree
    /\ enabled' = b
    /\ UNCHANGED <<ipLimits, mutex, clock, pc, ip, now, resp, admissions, adminVars>>

RLNext_ ==
    \/ Tick
    \/ \E p \in Procs, c \in Callers : RLEnter(p, c)
    \/ \E p \in Procs : RLNextOff(p)
    \/ \E p \in Procs : RLLock(p)
    \/ \E p \in Procs : RLPrune(p)
    \/ \E p \in Procs : RLCheck(p)
    \/ \E p \in Procs : RLAppend(p)
    \/ \E p \in Procs : RLNext(p)
    \/ \E p \in Procs : RLUnlock(p)
    \/ \E b \in BOOLEAN : SetEnabled(b)

-----------------------------------------------------------------------------
(* services.AdminService: data *)

MaxRegistrations == 2   \* RegisterNGO stops succeeding once this many registrations exist
MaxAuditLogs == 4       \* audited calls stop succeeding once the audit log has this length

\* strings that the code inspects character by character are sequences of characters
Digits == {"0", "1", "2", "3", "4", "5", "6", "7", "8", "9"}
HexChars == Digits \cup {"a", "b", "c", "d", "e", "f", "A", "B", "C", "D", "E", "F"}
EmptyString == << >>

\* tax IDs submitted by callers: a valid one, the same one punctuated, and one with a
\* wrong second check digit
CnpjValid == <<"1","1","2","2","2","3","3","3","0","0","0","1","8","1">>
CnpjValidPunctuated ==
    <<"1","1",".","2","2","2",".","3","3","3","/","0","0","0","1","-","8","1">>
CnpjBadCheck == <<"1","1","2","2","2","3","3","3","0","0","0","1","8","2">>
CNPJInputs == {CnpjValid, CnpjValidPunctuated, CnpjBadCheck}
Requests == {[Name |-> "ONG", CNPJ |-> c] : c \in CNPJInputs}

RegistrationIDs == 1..MaxRegistrations
AdminIDs == {7}
EntityTypes == {"ngo", "donation", "expense", "user"}
TxHashChars == {"a"}      \* characters rand.Intn picks for a transaction hash
IpfsHashChars == {"Z"}    \* characters rand.Intn picks for an IPFS hash

NGOStatusPending == "pendente"
NGOStatusValidating == "validando"
NGOStatusRejected == "rejeitado"
NGOStatusApproved == "aprovado"

NoError == ""
ErrCNPJRegistered == "CNPJ ja registrado no sistema"
ErrCNPJActiveNGO == "CNPJ ja pertence a uma ONG ativa"
ErrRegistrationNotFound == "registro de ONG nao encontrado"
ErrUploadNeedsValidCNPJ == "CNPJ deve ser validado antes do upload de documentos"
ErrCNPJNotValidated == "CNPJ nao foi validado"
ErrNoDocuments == "documentos nao foram enviados"
ErrNGONotFound == "ONG nao encontrada"
ErrDonationNotFound == "doacao nao encontrada"
ErrExpenseNotFound == "despesa nao encontrada"
ErrUnknownEntityType == "tipo de entidade desconhecido"

\* models.NGORegistration{} and models.NGO{}
ZeroRegistration ==
    [ID |-> 0, Name |-> "", CNPJ |-> EmptyString, CNPJValid |-> FALSE,
     CNPJValidationMsg |-> "", DocumentsIPFS |-> EmptyString,
     BlockchainRef |-> EmptyString, Status |-> "", AdminComments |-> ""]
ZeroNGO ==
    [ID |-> 0, Name |-> "", CNPJ |-> EmptyString, DocumentsIPFS |-> EmptyString,
     BlockchainRef |-> EmptyString]

\* the organizations NewDonationService starts with
SeedNGOs ==
    << [ZeroNGO EXCEPT !.ID = 1, !.Name = "Alimentando Esperanca"],
       [ZeroNGO EXCEPT !.ID = 2, !.Name = "Saude para Todos"],
       [ZeroNGO EXCEPT !.ID = 3, !.Name = "Educacao e Futuro"] >>

-----------------------------------------------------------------------------
(* services.AdminService: pure helpers *)

DigitValue(ch) ==
    CASE ch = "0" -> 0 [] ch = "1" -> 1 [] ch = "2" -> 2 [] ch = "3" -> 3
      [] ch = "4" -> 4 [] ch = "5" -> 5 [] ch = "6" -> 6 [] ch = "7" -> 7
      [] ch = "8" -> 8 [] ch = "9" -> 9

IsDigit(ch) == ch \in Digits

\* regexp `[^0-9]` replaced by "": only the digits remain, in order
StripNonDigits(str) == SelectSeq(str, IsDigit)

RECURSIVE WeightedSum(_, _, _)
\* sum += digit * weight[i] over the first n digits
WeightedSum(cnpj, weight, n) ==
    IF n = 0 THEN 0
    ELSE DigitValue(cnpj[n]) * weight[n] + WeightedSum(cnpj, weight, n - 1)

\* remainder := sum % 11; 0 if remainder < 2, else 11 - remainder
VerificationDigit(sum) ==
    LET remainder == sum % 11
    IN  IF remainder >= 2 THEN 11 - remainder ELSE 0

\* the first weights shifted by one place
Weight1Shifted == <<4, 3, 2, 9, 8, 7, 6, 5, 4, 3, 2, 5>>

Weight1 == <<5, 4, 3, 2, 9, 8, 7, 6, 5, 4, 3, 2>>
Weight2 == <<6, 5, 4, 3, 2, 9, 8, 7, 6, 5, 4, 3, 2>>

\* a validation that compares the first check digit only
validateCNPJFormatFirstCheckOnly(raw) ==
    LET cnpj == StripNonDigits(raw)
    IN  IF Len(cnpj) # 14
        THEN [valid |-> FALSE, msg |-> "CNPJ deve conter 14 digitos"]
        ELSE IF \A i \in 2..Len(cnpj) : cnpj[i] = cnpj[1]
        THEN [valid |-> FALSE, msg |-> "CNPJ invalido: todos os digitos sao iguais"]
        ELSE IF DigitValue(cnpj[13]) # VerificationDigit(WeightedSum(cnpj, Weight1, 12))
        THEN [valid |-> FALSE,
              msg |-> "CNPJ invalido: primeiro digito verificador incorreto"]
        ELSE [valid |-> TRUE, msg |-> "CNPJ valido"]

\* a validation without the test for identical digits
validateCNPJFormatUnscreened(raw) ==
    LET cnpj == StripNonDigits(raw)
    IN  IF Len(cnpj) # 14
        THEN [valid |-> FALSE, msg |-> "CNPJ deve conter 14 digitos"]
        ELSE IF DigitValue(cnpj[13]) # VerificationDigit(WeightedSum(cnpj, Weight1, 12))
        THEN [valid |-> FALSE,
              msg |-> "CNPJ invalido: primeiro digito verificador incorreto"]
        ELSE IF DigitValue(cnpj[14]) # VerificationDigit(WeightedSum(cnpj, Weight2, 13))
        THEN [valid |-> FALSE,
              msg |-> "CNPJ invalido: segundo digito verificador incorreto"]
        ELSE [valid |-> TRUE, msg |-> "CNPJ valido"]

validateCNPJFormat(raw) ==
    LET cnpj == StripNonDigits(raw)
    IN  IF Len(cnpj) # 14
        THEN [valid |-> FALSE, msg |-> "CNPJ deve conter 14 digitos"]
        ELSE IF \A i \in 2..Len(cnpj) : cnpj[i] = cnpj[1]
        THEN [valid |-> FALSE, msg |-> "CNPJ invalido: todos os digitos sao iguais"]
        ELSE IF DigitValue(cnpj[13]) # VerificationDigit(WeightedSum(cnpj, Weight1, 12))
        THEN [valid |-> FALSE,
              msg |-> "CNPJ invalido: primeiro digito verificador incorreto"]
        ELSE IF DigitValue(cnpj[14]) # VerificationDigit(WeightedSum(cnpj, Weight2, 13))
        THEN [valid |-> FALSE,
              msg |-> "CNPJ invalido: segundo digito verificador incorreto"]
        ELSE [valid |-> TRUE, msg |-> "CNPJ valido"]

\* a transaction hash printed without its "0x" prefix
generateMockTransactionHashBare(ch) == [i \in 1..64 |-> ch]

\* "0x" followed by 64 characters drawn from the hexadecimal charset
generateMockTransactionHash(ch) == <<"0", "x">> \o [i \in 1..64 |-> ch]

\* length characters drawn from the alphanumeric charset
generateMockHash(length, ch) == [i \in 1..length |-> ch]

\* a document reference one character short of the store format
MockIPFSHashShort(ch) == <<"Q", "m">> \o generateMockHash(43, ch)

\* fmt.Sprintf("Qm%s", generateMockHash(46))
MockIPFSHash(ch) == <<"Q", "m">> \o generateMockHash(46, ch)

verifyBlockchainReference(reference) ==
    /\ reference # EmptyString
    /\ Len(reference) >= 2 /\ SubSeq(reference, 1, 2) = <<"0", "x">>
    /\ Len(reference) = 66
    /\ \A i \in 3..66 : reference[i] \in HexChars

\* a store check that asks for more than 46 characters
verifyIPFSReferenceLonger(reference) ==
    /\ reference # EmptyString
    /\ Len(reference) >= 2 /\ SubSeq(reference, 1, 2) = <<"Q", "m">>
    /\ Len(reference) > 46

verifyIPFSReference(reference) ==
    /\ reference # EmptyString
    /\ Len(reference) >= 2 /\ SubSeq(reference, 1, 2) = <<"Q", "m">>
    /\ Len(reference) >= 46

\* the index of the first element with the given ID, 0 when there is none
IndexOfID(records, id) ==
    IF \E i \in 1..Len(records) : records[i].ID = id
    THEN CHOOSE i \in 1..Len(records) :
            /\ records[i].ID = id
            /\ \A j \in 1..(i - 1) : records[j].ID # id
    ELSE 0

\* the registration the request turns into
NewRegistration(registrationID, req) ==
    LET check == validateCNPJFormat(req.CNPJ)
    IN  [ID |-> registrationID, Name |-> req.Name, CNPJ |-> req.CNPJ,
         CNPJValid |-> check.valid, CNPJValidationMsg |-> check.msg,
         DocumentsIPFS |-> EmptyString, BlockchainRef |-> EmptyString,
         Status |-> NGOStatusPending, AdminComments |-> ""]

\* the audit entry logAuditAction builds: the verification fields keep their zero values
AuditLogEntry(logID, adminID, action, entityType, entityID, previousState, newState) ==
    [ID |-> logID, AdminID |-> adminID, Action |-> action, EntityType |-> entityType,
     EntityID |-> entityID, PreviousState |-> previousState, NewState |-> newState,
     Comments |-> newState, BlockchainValid |-> FALSE, IPFSValid |-> FALSE,
     ValidationErrors |-> << >>]

\* a logAuditAction that puts the new entry at the front of the log
logAuditActionAtFront(logs, adminID, action, entityType, entityID, previousState, newState) ==
    <<AuditLogEntry(Len(logs) + 1, adminID, action, entityType, entityID,
                    previousState, newState)>> \o logs

\* logAuditAction: the log with one entry appended, its ID the new length
logAuditAction(logs, adminID, action, entityType, entityID, previousState, newState) ==
    Append(logs, AuditLogEntry(Len(logs) + 1, adminID, action, entityType, entityID,
                               previousState, newState))

\* the record of a call: operation, arguments, returned value and error
Call(op, id, cnpj, ret, err) == [op |-> op, id |-> id, cnpj |-> cnpj, ret |-> ret, err |-> err]

\* the arguments and locals of ApproveNGO before the call
ZeroApproveLocals ==
    [registrationID |-> 0, adminID |-> 0, comments |-> "", registration |-> ZeroRegistration,
     regIndex |-> 0, blockchainRef |-> EmptyString, ngo |-> ZeroNGO]

AdminInit ==
    /\ ngoRegistrations = << >>
    /\ ngos = << >>
    /\ auditLogs = << >>
    /\ dsNgos = SeedNGOs
    /\ dsDonations = << >>
    /\ dsReceipts = << >>
    /\ expenses = << >>
    /\ call = Call("none", 0, EmptyString, ZeroRegistration, NoError)
    /\ rpc = [g \in Procs |-> "idle"]
    /\ rreq = [g \in Procs |-> [Name |-> "", CNPJ |-> EmptyString]]
    /\ rloc = [g \in Procs |-> [registrationID |-> 0, regs |-> << >>, logID |-> 0, logs |-> << >>]]
    /\ rret = [g \in Procs |-> [reg |-> ZeroRegistration, err |-> NoError]]
    /\ apc = [g \in Procs |-> "idle"]
    /\ aloc = [g \in Procs |-> ZeroApproveLocals]
    /\ aret = [g \in Procs |-> [ngo |-> ZeroNGO, err |-> NoError]]
    /\ rdpc = "idle"
    /\ obs = [reg |-> ZeroRegistration, err |-> NoError, ngos |-> << >>]
    /\ fin = [fn |-> "none"]
    /\ fout = [fn |-> "none"]

\* middleware.NewRateLimiter
NewRateLimiter(maxRequests, windowLength) ==
    [ipLimits |-> << >>, maxRequests |-> maxRequests, windowLength |-> windowLength,
     enabled |-> TRUE]

\* the public limiter is the more generous of the two
PublicMaxRequests == MaxRequests + 1
AdminMaxRequests == MaxRequests

NoHTTPResp == [group |-> "none", ip |-> "", adminID |-> "", status |-> 0]

\* main: the two limiters handed to SetupRoutes, no request served yet
RoutesInit ==
    /\ publicRateLimiter = NewRateLimiter(PublicMaxRequests, WindowLength)
    /\ adminRateLimiter = NewRateLimiter(AdminMaxRequests, WindowLength)
    /\ served = 0
    /\ httpResp = NoHTTPResp

\* models.ExpenseResponse of a call that returned an error
ZeroExpenseResponse == [ID |-> 0, DonationID |-> 0, NGOID |-> 0, Amount |-> 0, Status |-> ""]

ZeroExpenseRequest == [DonationID |-> 0, NGOID |-> 0, Amount |-> 0]

ZeroDonation ==
    [ID |-> 0, Amount |-> 0, DonorID |-> 0, NGOID |-> 0, Status |-> "",
     TransactionHash |-> EmptyString]

\* no goroutine has a RegisterExpense call under way
ExpenseInit ==
    /\ epc = [g \in Procs |-> "idle"]
    /\ ereq = [g \in Procs |-> ZeroExpenseRequest]
    /\ eloc = [g \in Procs |-> [donation |-> ZeroDonation, totalExpenses |-> 0, expenseID |-> 0]]
    /\ eret = [g \in Procs |-> [resp |-> ZeroExpenseResponse, err |-> NoError]]

Init == RLInit /\ AdminInit /\ RoutesInit /\ ExpenseInit

-----------------------------------------------------------------------------
(* services.AdminService: the operations, one call at a time *)

\* the audited calls stop succeeding at the bound of the audit log
AuditRoom == Len(auditLogs) < MaxAuditLogs

\* a duplicate test that overlooks the registrations
CNPJNeverRegistered(regs, cnpj) == FALSE

\* the tax ID is already in use: string equality with a registration's CNPJ
CNPJRegistered(regs, cnpj) == \E i \in 1..Len(regs) : regs[i].CNPJ = cnpj

\* AdminService.RegisterNGO: what the call does to the service and what it returns
RegisterNGOCall(req) ==
    IF CNPJRegistered(ngoRegistrations, req.CNPJ)
    THEN /\ call' = Call("RegisterNGO", 0, req.CNPJ, ZeroRegistration, ErrCNPJRegistered)
         /\ UNCHANGED svcVars
    ELSE IF \E j \in 1..Len(ngos) : ngos[j].CNPJ = req.CNPJ
    THEN /\ call' = Call("RegisterNGO", 0, req.CNPJ, ZeroRegistration, ErrCNPJActiveNGO)
         /\ UNCHANGED svcVars
    ELSE /\ Len(ngoRegistrations) < MaxRegistrations
         /\ AuditRoom
         /\ LET registrationID == Len(ngoRegistrations) + 1
                registration == NewRegistration(registrationID, req)
            IN  /\ ngoRegistrations' = Append(ngoRegistrations, registration)
                /\ auditLogs' = logAuditAction(auditLogs, 0, "ngo_registration_created",
                                               "ngo_registration", registrationID, "",
                                               "Registro de ONG solicitado")
                /\ call' = Call("RegisterNGO", 0, req.CNPJ, registration, NoError)
         /\ UNCHANGED <<ngos, dsNgos, dsDonations, dsReceipts, expenses>>

\* RegisterNGO called on its own
RegisterNGO(req) ==
    /\ RegisterNGOCall(req)
    /\ UNCHANGED <<rlVars, fnVars, rtVars, exVars, goVars, apVars>>

\* an online validation that overrides the stored checksum result
CNPJAlwaysAccepted(registration) == TRUE

\* if registration.CNPJValid
CNPJAccepted(registration) == registration.CNPJValid

\* an online validation that fails with a fixed message
ValidateCNPJOnlineTerse(registrationID) ==
    LET index == IndexOfID(ngoRegistrations, registrationID)
    IN  IF index = 0
        THEN /\ call' = Call("ValidateCNPJOnline", registrationID, EmptyString,
                             ZeroRegistration, ErrRegistrationNotFound)
             /\ UNCHANGED <<svcVars, rlVars, fnVars, rtVars, exVars, goVars, apVars>>
        ELSE LET registration == ngoRegistrations[index]
             IN  IF CNPJAccepted(registration)
                 THEN /\ AuditRoom
                      /\ ngoRegistrations' =
                            [ngoRegistrations EXCEPT
                                ![index].CNPJValid = TRUE,
                                ![index].CNPJValidationMsg = "CNPJ verificado online e valido",
                                ![index].Status = NGOStatusValidating]
                      /\ auditLogs' = logAuditAction(auditLogs, 0, "cnpj_validated",
                                                     "ngo_registration", registrationID,
                                                     registration.Status, NGOStatusValidating)
                      /\ call' = Call("ValidateCNPJOnline", registrationID, EmptyString,
                                      ngoRegistrations'[index], NoError)
                      /\ UNCHANGED <<ngos, dsNgos, dsDonations, dsReceipts, expenses,
                                     rlVars, fnVars, rtVars, exVars, goVars, apVars>>
                 ELSE /\ call' = Call("ValidateCNPJOnline", registrationID, EmptyString,
                                      ZeroRegistration, "CNPJ invalido")
                      /\ UNCHANGED <<svcVars, rlVars, fnVars, rtVars, exVars, goVars, apVars>>

ValidateCNPJOnline(registrationID) ==
    LET index == IndexOfID(ngoRegistrations, registrationID)
    IN  IF index = 0
        THEN /\ call' = Call("ValidateCNPJOnline", registrationID, EmptyString,
                             ZeroRegistration, ErrRegistrationNotFound)
             /\ UNCHANGED <<svcVars, rlVars, fnVars, rtVars, exVars, goVars, apVars>>
        ELSE LET registration == ngoRegistrations[index]
             IN  IF CNPJAccepted(registration)
                 THEN /\ AuditRoom
                      /\ ngoRegistrations' =
                            [ngoRegistrations EXCEPT
                                ![index].CNPJValid = TRUE,
                                ![index].CNPJValidationMsg = "CNPJ verificado online e valido",
                                ![index].Status = NGOStatusValidating]
                      /\ auditLogs' = logAuditAction(auditLogs, 0, "cnpj_validated",
                                                     "ngo_registration", registrationID,
                                                     registration.Status, NGOStatusValidating)
                      /\ call' = Call("ValidateCNPJOnline", registrationID, EmptyString,
                                      ngoRegistrations'[index], NoError)
                      /\ UNCHANGED <<ngos, dsNgos, dsDonations, dsReceipts, expenses,
                                     rlVars, fnVars, rtVars, exVars, goVars, apVars>>
                 ELSE /\ call' = Call("ValidateCNPJOnline", registrationID, EmptyString,
                                      ZeroRegistration, registration.CNPJValidationMsg)
                      /\ UNCHANGED <<svcVars, rlVars, fnVars, rtVars, exVars, goVars, apVars>>

\* an upload that stores the document reference before it tests the checksum flag
UploadNGODocumentsEager(registrationID, ch) ==
    LET index == IndexOfID(ngoRegistrations, registrationID)
    IN  IF index = 0
        THEN /\ call' = Call("UploadNGODocuments", registrationID, EmptyString,
                             ZeroRegistration, ErrRegistrationNotFound)
             /\ UNCHANGED <<svcVars, rlVars, fnVars, rtVars, exVars, goVars, apVars>>
        ELSE IF ~ngoRegistrations[index].CNPJValid
        THEN /\ ngoRegistrations' =
                   [ngoRegistrations EXCEPT ![index].DocumentsIPFS = MockIPFSHash(ch)]
             /\ call' = Call("UploadNGODocuments", registrationID, EmptyString,
                             ZeroRegistration, ErrUploadNeedsValidCNPJ)
             /\ UNCHANGED <<ngos, auditLogs, dsNgos, dsDonations, dsReceipts, expenses,
                            rlVars, fnVars, rtVars, exVars, goVars, apVars>>
        ELSE /\ AuditRoom
             /\ ngoRegistrations' =
                   [ngoRegistrations EXCEPT ![index].DocumentsIPFS = MockIPFSHash(ch)]
             /\ auditLogs' = logAuditAction(auditLogs, 0, "documents_uploaded",
                                            "ngo_registration", registrationID, "",
                                            "Documentos enviados para IPFS")
             /\ call' = Call("UploadNGODocuments", registrationID, EmptyString,
                             ngoRegistrations'[index], NoError)
             /\ UNCHANGED <<ngos, dsNgos, dsDonations, dsReceipts, expenses, rlVars, fnVars, rtVars, exVars, goVars,
                            apVars>>

UploadNGODocuments(registrationID, ch) ==
    LET index == IndexOfID(ngoRegistrations, registrationID)
    IN  IF index = 0
        THEN /\ call' = Call("UploadNGODocuments", registrationID, EmptyString,
                             ZeroRegistration, ErrRegistrationNotFound)
             /\ UNCHANGED <<svcVars, rlVars, fnVars, rtVars, exVars, goVars, apVars>>
        ELSE IF ~ngoRegistrations[index].CNPJValid
        THEN /\ call' = Call("UploadNGODocuments", registrationID, EmptyString,
                             ZeroRegistration, ErrUploadNeedsValidCNPJ)
             /\ UNCHANGED <<svcVars, rlVars, fnVars, rtVars, exVars, goVars, apVars>>
        ELSE /\ AuditRoom
             /\ ngoRegistrations' =
                   [ngoRegistrations EXCEPT ![index].DocumentsIPFS = MockIPFSHash(ch)]
             /\ auditLogs' = logAuditAction(auditLogs, 0, "documents_uploaded",
                                            "ngo_registration", registrationID, "",
                                            "Documentos enviados para IPFS")
             /\ call' = Call("UploadNGODocuments", registrationID, EmptyString,
                             ngoRegistrations'[index], NoError)
             /\ UNCHANGED <<ngos, dsNgos, dsDonations, dsReceipts, expenses, rlVars, fnVars, rtVars, exVars, goVars, apVars>>

\* an approval that does not ask for documents
DocumentsNeverMissing(registration) == FALSE

\* registration.DocumentsIPFS == ""
DocumentsMissing(registration) == registration.DocumentsIPFS = EmptyString

\* the organization ApproveNGO mints from a registration
NewNGO(ngoID, registration, blockchainRef) ==
    [ID |-> ngoID, Name |-> registration.Name, CNPJ |-> registration.CNPJ,
     DocumentsIPFS |-> registration.DocumentsIPFS, BlockchainRef |-> blockchainRef]

ApproveNGO(registrationID, adminID, comments, ch) ==
    LET regIndex == IndexOfID(ngoRegistrations, registrationID)
    IN  IF regIndex = 0
        THEN /\ call' = Call("ApproveNGO", registrationID, EmptyString, ZeroNGO,
                             ErrRegistrationNotFound)
             /\ UNCHANGED <<svcVars, rlVars, fnVars, rtVars, exVars, goVars, apVars>>
        ELSE IF ~ngoRegistrations[regIndex].CNPJValid
        THEN /\ call' = Call("ApproveNGO", registrationID, EmptyString, ZeroNGO,
                             ErrCNPJNotValidated)
             /\ UNCHANGED <<svcVars, rlVars, fnVars, rtVars, exVars, goVars, apVars>>
        ELSE IF DocumentsMissing(ngoRegistrations[regIndex])
        THEN /\ call' = Call("ApproveNGO", registrationID, EmptyString, ZeroNGO,
                             ErrNoDocuments)
             /\ UNCHANGED <<svcVars, rlVars, fnVars, rtVars, exVars, goVars, apVars>>
        ELSE /\ AuditRoom
             /\ LET blockchainRef == generateMockTransactionHash(ch)
                    ngoID == Len(ngos) + 1
                    ngo == NewNGO(ngoID, ngoRegistrations[regIndex], blockchainRef)
                IN  /\ ngoRegistrations' =
                          [ngoRegistrations EXCEPT
                              ![regIndex].BlockchainRef = blockchainRef,
                              ![regIndex].Status = NGOStatusApproved,
                              ![regIndex].AdminComments = comments]
                    /\ ngos' = Append(ngos, ngo)
                    /\ dsNgos' = Append(dsNgos, ngo)
                    /\ auditLogs' = logAuditAction(auditLogs, adminID, "ngo_approved", "ngo",
                                                   ngoID, NGOStatusValidating,
                                                   NGOStatusApproved)
                    /\ call' = Call("ApproveNGO", registrationID, EmptyString, ngo, NoError)
             /\ UNCHANGED <<dsDonations, dsReceipts, expenses, rlVars, fnVars, rtVars, exVars, goVars, apVars>>

RejectNGO(registrationID, adminID, reason) ==
    LET index == IndexOfID(ngoRegistrations, registrationID)
    IN  IF index = 0
        THEN /\ call' = Call("RejectNGO", registrationID, EmptyString, ZeroRegistration,
                             ErrRegistrationNotFound)
             /\ UNCHANGED <<svcVars, rlVars, fnVars, rtVars, exVars, goVars, apVars>>
        ELSE /\ AuditRoom
             /\ ngoRegistrations' =
                   [ngoRegistrations EXCEPT ![index].Status = NGOStatusRejected,
                                            ![index].AdminComments = reason]
             /\ auditLogs' = logAuditAction(auditLogs, adminID, "ngo_rejected",
                                            "ngo_registration", registrationID,
                                            ngoRegistrations[index].Status,
                                            NGOStatusRejected)
             /\ call' = Call("RejectNGO", registrationID, EmptyString,
                             ngoRegistrations'[index], NoError)
             /\ UNCHANGED <<ngos, dsNgos, dsDonations, dsReceipts, expenses, rlVars, fnVars, rtVars, exVars, goVars, apVars>>

\* a lookup that audits entities of unknown types as if they had no references
ResolveReferencesLenient(entityType, entityID) ==
    CASE entityType = "ngo" ->
            LET i == IndexOfID(ngos, entityID)
            IN  IF i = 0
                THEN [found |-> FALSE, blockchainRef |-> EmptyString,
                      ipfsRef |-> EmptyString, err |-> ErrNGONotFound]
                ELSE [found |-> TRUE, blockchainRef |-> ngos[i].BlockchainRef,
                      ipfsRef |-> ngos[i].DocumentsIPFS, err |-> NoError]
      [] entityType = "donation" ->
            LET i == IndexOfID(dsDonations, entityID)
                rs == SelectSeq(dsReceipts, LAMBDA r : r.DonationID = entityID)
            IN  IF i = 0
                THEN [found |-> FALSE, blockchainRef |-> EmptyString,
                      ipfsRef |-> EmptyString, err |-> ErrDonationNotFound]
                ELSE [found |-> TRUE, blockchainRef |-> dsDonations[i].TransactionHash,
                      ipfsRef |-> IF rs = << >> THEN EmptyString ELSE rs[1].IPFSHash,
                      err |-> NoError]
      [] entityType = "expense" ->
            LET i == IndexOfID(expenses, entityID)
            IN  IF i = 0
                THEN [found |-> FALSE, blockchainRef |-> EmptyString,
                      ipfsRef |-> EmptyString, err |-> ErrExpenseNotFound]
                ELSE [found |-> TRUE, blockchainRef |-> expenses[i].BlockchainRef,
                      ipfsRef |-> expenses[i].ReceiptIPFS, err |-> NoError]
      [] OTHER -> [found |-> TRUE, blockchainRef |-> EmptyString,
                   ipfsRef |-> EmptyString, err |-> NoError]

\* the references AuditEntity resolves for an entity: found, blockchainRef, ipfsRef, error
ResolveReferences(entityType, entityID) ==
    CASE entityType = "ngo" ->
            LET i == IndexOfID(ngos, entityID)
            IN  IF i = 0
                THEN [found |-> FALSE, blockchainRef |-> EmptyString,
                      ipfsRef |-> EmptyString, err |-> ErrNGONotFound]
                ELSE [found |-> TRUE, blockchainRef |-> ngos[i].BlockchainRef,
                      ipfsRef |-> ngos[i].DocumentsIPFS, err |-> NoError]
      [] entityType = "donation" ->
            LET i == IndexOfID(dsDonations, entityID)
                rs == SelectSeq(dsReceipts, LAMBDA r : r.DonationID = entityID)
            IN  IF i = 0
                THEN [found |-> FALSE, blockchainRef |-> EmptyString,
                      ipfsRef |-> EmptyString, err |-> ErrDonationNotFound]
                ELSE [found |-> TRUE, blockchainRef |-> dsDonations[i].TransactionHash,
                      ipfsRef |-> IF rs = << >> THEN EmptyString ELSE rs[1].IPFSHash,
                      err |-> NoError]
      [] entityType = "expense" ->
            LET i == IndexOfID(expenses, entityID)
            IN  IF i = 0
                THEN [found |-> FALSE, blockchainRef |-> EmptyString,
                      ipfsRef |-> EmptyString, err |-> ErrExpenseNotFound]
                ELSE [found |-> TRUE, blockchainRef |-> expenses[i].BlockchainRef,
                      ipfsRef |-> expenses[i].ReceiptIPFS, err |-> NoError]
      [] OTHER -> [found |-> FALSE, blockchainRef |-> EmptyString,
                   ipfsRef |-> EmptyString, err |-> ErrUnknownEntityType]

\* the two format checks of AuditEntity and the error messages they collect
VerifyOutcome(blockchainRef, ipfsRef) ==
    LET blockchainValid == verifyBlockchainReference(blockchainRef)
        ipfsValid == verifyIPFSReference(ipfsRef)
    IN  [BlockchainValid |-> blockchainValid,
         IPFSValid |-> ipfsValid,
         ValidationErrors |->
            (IF blockchainValid THEN << >>
             ELSE <<"Referencia na blockchain invalida ou nao encontrada">>)
            \o (IF ipfsValid THEN << >>
                ELSE <<"Referencia no IPFS invalida ou nao encontrada">>)]

\* models.AuditResult
AuditResult(entityType, entityID, blockchainValid, ipfsValid, blockchainRef, ipfsRef, errors) ==
    [EntityType |-> entityType, EntityID |-> entityID, BlockchainValid |-> blockchainValid,
     IPFSValid |-> ipfsValid, BlockchainRef |-> blockchainRef, IPFSRef |-> ipfsRef,
     ValidationErrors |-> errors]

\* an audit that writes its entry only when it found no error
AuditEntityQuietOnErrors(entityType, entityID, adminID) ==
    LET refs == ResolveReferences(entityType, entityID)
    IN  IF ~refs.found
        THEN /\ call' = Call("AuditEntity", entityID, EmptyString,
                             AuditResult(entityType, entityID, FALSE, FALSE, EmptyString,
                                         EmptyString, << >>),
                             refs.err)
             /\ UNCHANGED <<svcVars, rlVars, fnVars, rtVars, exVars, goVars, apVars>>
        ELSE LET outcome == VerifyOutcome(refs.blockchainRef, refs.ipfsRef)
                 blockchainValid == outcome.BlockchainValid
                 ipfsValid == outcome.IPFSValid
                 validationErrors == outcome.ValidationErrors
                 comments == IF Len(validationErrors) > 0
                             THEN "Auditoria com erros"
                             ELSE "Auditoria concluida com sucesso"
             IN  /\ AuditRoom
                 /\ auditLogs' = IF Len(validationErrors) > 0
                                 THEN auditLogs
                                 ELSE logAuditAction(auditLogs, adminID, "audit_performed",
                                                     entityType, entityID, "", comments)
                 /\ call' = Call("AuditEntity", entityID, EmptyString,
                                 AuditResult(entityType, entityID, blockchainValid,
                                             ipfsValid, refs.blockchainRef, refs.ipfsRef,
                                             validationErrors),
                                 NoError)
                 /\ UNCHANGED <<ngoRegistrations, ngos, dsNgos, dsDonations, dsReceipts,
                                expenses, rlVars, fnVars, rtVars, exVars, goVars, apVars>>

\* an audit that stamps the donations it has looked at
AuditEntityStamping(entityType, entityID, adminID) ==
    LET refs == ResolveReferences(entityType, entityID)
    IN  IF ~refs.found
        THEN /\ call' = Call("AuditEntity", entityID, EmptyString,
                             AuditResult(entityType, entityID, FALSE, FALSE, EmptyString,
                                         EmptyString, << >>),
                             refs.err)
             /\ UNCHANGED <<svcVars, rlVars, fnVars, rtVars, exVars, goVars, apVars>>
        ELSE LET outcome == VerifyOutcome(refs.blockchainRef, refs.ipfsRef)
                 blockchainValid == outcome.BlockchainValid
                 ipfsValid == outcome.IPFSValid
                 validationErrors == outcome.ValidationErrors
                 comments == IF Len(validationErrors) > 0
                             THEN "Auditoria com erros"
                             ELSE "Auditoria concluida com sucesso"
             IN  /\ AuditRoom
                 /\ auditLogs' = logAuditAction(auditLogs, adminID, "audit_performed",
                                                entityType, entityID, "", comments)
                 /\ call' = Call("AuditEntity", entityID, EmptyString,
                                 AuditResult(entityType, entityID, blockchainValid,
                                             ipfsValid, refs.blockchainRef, refs.ipfsRef,
                                             validationErrors),
                                 NoError)
                 /\ dsDonations' = [i \in 1..Len(dsDonations) |->
                                       [dsDonations[i] EXCEPT !.Status = "audited"]]
                 /\ UNCHANGED <<ngoRegistrations, ngos, dsNgos, dsReceipts,
                                expenses, rlVars, fnVars, rtVars, exVars, goVars, apVars>>

AuditEntity(entityType, entityID, adminID) ==
    LET refs == ResolveReferences(entityType, entityID)
    IN  IF ~refs.found
        THEN /\ call' = Call("AuditEntity", entityID, EmptyString,
                             AuditResult(entityType, entityID, FALSE, FALSE, EmptyString,
                                         EmptyString, << >>),
                             refs.err)
             /\ UNCHANGED <<svcVars, rlVars, fnVars, rtVars, exVars, goVars, apVars>>
        ELSE LET outcome == VerifyOutcome(refs.blockchainRef, refs.ipfsRef)
                 blockchainValid == outcome.BlockchainValid
                 ipfsValid == outcome.IPFSValid
                 validationErrors == outcome.ValidationErrors
                 comments == IF Len(validationErrors) > 0
                             THEN "Auditoria com erros"
                             ELSE "Auditoria concluida com sucesso"
             IN  /\ AuditRoom
                 /\ auditLogs' = logAuditAction(auditLogs, adminID, "audit_performed",
                                                entityType, entityID, "", comments)
                 /\ call' = Call("AuditEntity", entityID, EmptyString,
                                 AuditResult(entityType, entityID, blockchainValid,
                                             ipfsValid, refs.blockchainRef, refs.ipfsRef,
                                             validationErrors),
                                 NoError)
                 /\ UNCHANGED <<ngoRegistrations, ngos, dsNgos, dsDonations, dsReceipts,
                                expenses, rlVars, fnVars, rtVars, exVars, goVars, apVars>>

MaxDonations == 1   \* ProcessDonation stops succeeding once this many donations exist

\* the users NewDonationService starts with
UserIDs == {1, 2}

ErrUserNotFound == "Usuario nao encontrado"

\* models.DonationRequest values: a seeded organization or an unknown one, a seeded donor
DonationRequests == {[Amount |-> 50, DonorID |-> 1, NGOID |-> n] : n \in {1, 9}}

\* the donation ProcessDonation stores: pending, no transaction hash yet
NewDonation(donationID, req) ==
    [ID |-> donationID, Amount |-> req.Amount, DonorID |-> req.DonorID, NGOID |-> req.NGOID,
     Status |-> "pending", TransactionHash |-> EmptyString]

\* models.DonationResponse
DonationResponse(id, status) == [ID |-> id, Status |-> status]

ProcessDonation(req) ==
    IF IndexOfID(dsNgos, req.NGOID) = 0
    THEN /\ call' = Call("ProcessDonation", 0, EmptyString, DonationResponse(0, ""),
                         ErrNGONotFound)
         /\ UNCHANGED <<svcVars, rlVars, fnVars, rtVars, exVars, goVars, apVars>>
    ELSE IF req.DonorID \notin UserIDs
    THEN /\ call' = Call("ProcessDonation", 0, EmptyString, DonationResponse(0, ""),
                         ErrUserNotFound)
         /\ UNCHANGED <<svcVars, rlVars, fnVars, rtVars, exVars, goVars, apVars>>
    ELSE /\ Len(dsDonations) < MaxDonations
         /\ LET donationID == Len(dsDonations) + 1
            IN  /\ dsDonations' = Append(dsDonations, NewDonation(donationID, req))
                /\ call' = Call("ProcessDonation", donationID, EmptyString,
                                DonationResponse(donationID, "pending"), NoError)
         /\ UNCHANGED <<ngoRegistrations, ngos, auditLogs, dsNgos, dsReceipts, expenses,
                        rlVars, fnVars, rtVars, exVars, goVars, apVars>>

Next ==
    \/ \E req \in Requests : RegisterNGO(req)
    \/ \E id \in RegistrationIDs : ValidateCNPJOnline(id)
    \/ \E id \in RegistrationIDs, ch \in IpfsHashChars : UploadNGODocuments(id, ch)
    \/ \E id \in RegistrationIDs, a \in AdminIDs, ch \in TxHashChars :
          ApproveNGO(id, a, "aprovado pelo administrador", ch)
    \/ \E id \in RegistrationIDs, a \in AdminIDs : RejectNGO(id, a, "documentacao recusada")
    \/ \E t \in EntityTypes, id \in RegistrationIDs, a \in AdminIDs : AuditEntity(t, id, a)

Spec == Init /\ [][Next]_vars

-----------------------------------------------------------------------------
(* The two format checks of AuditEntity called on reference strings of every shape *)

\* n characters, all ch but the last
Body(n, ch, last) == [i \in 1..n |-> IF i = n THEN last ELSE ch]

\* ledger references: empty, too short, and three prefixes before 63, 64 or 65 characters
\* whose last one is hexadecimal or not
LedgerRefInputs ==
    {EmptyString, <<"0">>, <<"0", "x">>}
    \cup {prefix \o Body(n, "a", last) :
             prefix \in {<<"0", "x">>, <<"0", "X">>, <<"Q", "m">>},
             n \in {63, 64, 65},
             last \in {"a", "F", "9", "g", "z"}}

\* store references: empty, too short, and three prefixes before 43, 44, 45 or 46 characters
StoreRefInputs ==
    {EmptyString, <<"Q">>}
    \cup {prefix \o Body(n, "Z", last) :
             prefix \in {<<"Q", "m">>, <<"q", "m">>, <<"0", "x">>},
             n \in {43, 44, 45, 46},
             last \in {"Z", "!"}}

\* blockchainValid, ipfsValid and validationErrors of AuditEntity for the two references
VerifyReferences(blockchainRef, ipfsRef) ==
    /\ fin.fn = "none"
    /\ fin' = [fn |-> "verify", blockchainRef |-> blockchainRef, ipfsRef |-> ipfsRef]
    /\ fout' = [fn |-> "verify", outcome |-> VerifyOutcome(blockchainRef, ipfsRef)]
    /\ UNCHANGED <<svcVars, call, goVars, apVars, rlVars, rtVars, exVars>>

NextVerify ==
    \E blockchainRef \in LedgerRefInputs, ipfsRef \in StoreRefInputs :
       VerifyReferences(blockchainRef, ipfsRef)

SpecVerify == Init /\ [][NextVerify]_vars

-----------------------------------------------------------------------------
(* validateCNPJFormat called on tax ID strings of every shape *)

\* the first twelve digits of three tax IDs
CNPJBases ==
    { <<"1","1","2","2","2","3","3","3","0","0","0","1">>,
      <<"0","0","0","0","0","0","0","0","0","0","0","1">>,
      <<"9","9","9","9","9","9","9","9","9","9","9","9">> }

\* n times the character ch
Repeated(n, ch) == [i \in 1..n |-> ch]

\* every pair of check digits after each base; every string of 13, 14 and 15 equal
\* digits; punctuated, lettered, short and empty strings
ChecksumInputs ==
    {base \o <<d13, d14>> : base \in CNPJBases, d13 \in Digits, d14 \in Digits}
    \cup {Repeated(n, d) : n \in {13, 14, 15}, d \in Digits}
    \cup {CnpjValidPunctuated,
          <<"C","N","P","J",":"," ">> \o CnpjValid,
          <<"0",".","0">> \o Repeated(11, "0") \o <<"-">>,
          <<"1","1","2","2","2","3","3","3","0","0","0","1","8","x","1">>,
          SubSeq(CnpjValid, 1, 13),
          CnpjValid \o <<"1">>,
          <<"a","b","c">>,
          EmptyString}

\* isValid, msg := s.validateCNPJFormat(raw)
ValidateCNPJ(raw) ==
    /\ fin.fn = "none"
    /\ fin' = [fn |-> "validateCNPJFormat", raw |-> raw]
    /\ fout' = [fn |-> "validateCNPJFormat", valid |-> validateCNPJFormat(raw).valid,
                msg |-> validateCNPJFormat(raw).msg]
    /\ UNCHANGED <<svcVars, call, goVars, apVars, rlVars, rtVars, exVars>>

NextCNPJ == \E raw \in ChecksumInputs : ValidateCNPJ(raw)

SpecCNPJ == Init /\ [][NextCNPJ]_vars

-----------------------------------------------------------------------------
\* One applicant is taken through the workflow while donors give and an administrator
\* audits organizations and donations, the calls made one at a time.
Applicant == [Name |-> "ONG", CNPJ |-> CnpjValid]
ApplicantID == 1
DonationIDs == 1..MaxDonations

NextAudit ==
    \/ RegisterNGO(Applicant)
    \/ ValidateCNPJOnline(ApplicantID)
    \/ \E ch \in IpfsHashChars : UploadNGODocuments(ApplicantID, ch)
    \/ \E a \in AdminIDs, ch \in TxHashChars :
          ApproveNGO(ApplicantID, a, "aprovado pelo administrador", ch)
    \/ \E a \in AdminIDs : RejectNGO(ApplicantID, a, "documentacao recusada")
    \/ \E t \in EntityTypes, id \in DonationIDs, a \in AdminIDs : AuditEntity(t, id, a)
    \/ \E req \in DonationRequests : ProcessDonation(req)

SpecAudit == Init /\ [][NextAudit]_vars

-----------------------------------------------------------------------------
(* Reading the audit trail: the three AdminService getters and the GetAuditLogs handler *)

\* GetAuditLogs: the whole log
GetAuditLogs == auditLogs

RECURSIVE LogsOfEntityType(_, _)
\* the loop of GetAuditLogsByEntityType over logs
LogsOfEntityType(logs, entityType) ==
    IF logs = << >> THEN << >>
    ELSE IF Head(logs).EntityType = entityType
         THEN <<Head(logs)>> \o LogsOfEntityType(Tail(logs), entityType)
         ELSE LogsOfEntityType(Tail(logs), entityType)

GetAuditLogsByEntityType(entityType) == LogsOfEntityType(auditLogs, entityType)

RECURSIVE LogsOfEntity(_, _, _)
\* the loop of GetAuditLogsByEntityID over logs
LogsOfEntity(logs, entityType, entityID) ==
    IF logs = << >> THEN << >>
    ELSE IF Head(logs).EntityType = entityType /\ Head(logs).EntityID = entityID
         THEN <<Head(logs)>> \o LogsOfEntity(Tail(logs), entityType, entityID)
         ELSE LogsOfEntity(Tail(logs), entityType, entityID)

GetAuditLogsByEntityID(entityType, entityID) == LogsOfEntity(auditLogs, entityType, entityID)

RECURSIVE ParseUint(_)
\* strconv.ParseUint(str, 10, 32) of a non-empty string of decimal digits
ParseUint(str) ==
    IF Len(str) = 1 THEN DigitValue(str[1])
    ELSE 10 * ParseUint(SubSeq(str, 1, Len(str) - 1)) + DigitValue(str[Len(str)])

\* ParseUint returns an error: a character that is no digit
ParseUintFails(str) == \E i \in 1..Len(str) : ~IsDigit(str[i])

StatusOK == 200
StatusBadRequest == 400

\* the handler GetAuditLogs: entityType is "" and entityIDStr is empty when the query
\* parameter is absent
GetAuditLogsHandler(entityType, entityIDStr) ==
    IF entityType # "" /\ entityIDStr # EmptyString
    THEN IF ParseUintFails(entityIDStr)
         THEN [status |-> StatusBadRequest, logs |-> << >>]
         ELSE [status |-> StatusOK,
               logs |-> GetAuditLogsByEntityID(entityType, ParseUint(entityIDStr))]
    ELSE IF entityType # ""
    THEN [status |-> StatusOK, logs |-> GetAuditLogsByEntityType(entityType)]
    ELSE [status |-> StatusOK, logs |-> GetAuditLogs]

\* the values of the query parameters entity_type and entity_id
QueryEntityTypes == {"", "ngo_registration", "ngo", "donation", "user"}
QueryEntityIDs == {EmptyString, <<"1">>, <<"2">>, <<"1", "0">>}

-----------------------------------------------------------------------------
(* RegisterNGO run by concurrent goroutines on one AdminService. The service takes   *)
(* no lock, so every read and every write of the shared slices is a step of its own; *)
(* each goroutine serves one request.                                                *)

\* the request arrives
RegBegin(g, req) ==
    /\ rpc[g] = "idle"
    /\ rreq' = [rreq EXCEPT ![g] = req]
    /\ rpc' = [rpc EXCEPT ![g] = "scan"]
    /\ UNCHANGED <<svcVars, call, rloc, rret, rlVars, fnVars, rtVars, exVars, apVars>>

\* the scans of s.ngoRegistrations and s.ngos for the tax ID
RegScan(g) ==
    /\ rpc[g] = "scan"
    /\ IF CNPJRegistered(ngoRegistrations, rreq[g].CNPJ)
       THEN /\ rret' = [rret EXCEPT ![g] = [reg |-> ZeroRegistration, err |-> ErrCNPJRegistered]]
            /\ rpc' = [rpc EXCEPT ![g] = "done"]
       ELSE IF \E j \in 1..Len(ngos) : ngos[j].CNPJ = rreq[g].CNPJ
       THEN /\ rret' = [rret EXCEPT ![g] = [reg |-> ZeroRegistration, err |-> ErrCNPJActiveNGO]]
            /\ rpc' = [rpc EXCEPT ![g] = "done"]
       ELSE /\ rpc' = [rpc EXCEPT ![g] = "build"]
            /\ UNCHANGED rret
    /\ UNCHANGED <<svcVars, call, rreq, rloc, rlVars, fnVars, rtVars, exVars, apVars>>

\* registrationID := uint(len(s.ngoRegistrations) + 1)
RegBuild(g) ==
    /\ rpc[g] = "build"
    /\ rloc' = [rloc EXCEPT ![g].registrationID = Len(ngoRegistrations) + 1]
    /\ rpc' = [rpc EXCEPT ![g] = "appendRead"]
    /\ UNCHANGED <<svcVars, call, rreq, rret, rlVars, fnVars, rtVars, exVars, apVars>>

\* append(s.ngoRegistrations, registration) reads the slice ...
RegAppendRead(g) ==
    /\ rpc[g] = "appendRead"
    /\ rloc' = [rloc EXCEPT ![g].regs = ngoRegistrations]
    /\ rpc' = [rpc EXCEPT ![g] = "appendWrite"]
    /\ UNCHANGED <<svcVars, call, rreq, rret, rlVars, fnVars, rtVars, exVars, apVars>>

\* ... and s.ngoRegistrations is assigned the extended slice
RegAppendWrite(g) ==
    /\ rpc[g] = "appendWrite"
    /\ ngoRegistrations' =
          Append(rloc[g].regs, NewRegistration(rloc[g].registrationID, rreq[g]))
    /\ rpc' = [rpc EXCEPT ![g] = "logID"]
    /\ UNCHANGED <<ngos, auditLogs, dsNgos, dsDonations, dsReceipts, expenses, call,
                   rreq, rloc, rret, rlVars, fnVars, rtVars, exVars, apVars>>

\* logAuditAction: logID := uint(len(s.auditLogs) + 1)
RegLogID(g) ==
    /\ rpc[g] = "logID"
    /\ rloc' = [rloc EXCEPT ![g].logID = Len(auditLogs) + 1]
    /\ rpc' = [rpc EXCEPT ![g] = "logRead"]
    /\ UNCHANGED <<svcVars, call, rreq, rret, rlVars, fnVars, rtVars, exVars, apVars>>

\* logAuditAction: append(s.auditLogs, log) reads the slice ...
RegLogRead(g) ==
    /\ rpc[g] = "logRead"
    /\ rloc' = [rloc EXCEPT ![g].logs = auditLogs]
    /\ rpc' = [rpc EXCEPT ![g] = "logWrite"]
    /\ UNCHANGED <<svcVars, call, rreq, rret, rlVars, fnVars, rtVars, exVars, apVars>>

\* ... s.auditLogs is assigned the extended slice, and RegisterNGO returns
RegLogWrite(g) ==
    /\ rpc[g] = "logWrite"
    /\ auditLogs' =
          Append(rloc[g].logs,
                 AuditLogEntry(rloc[g].logID, 0, "ngo_registration_created",
                               "ngo_registration", rloc[g].registrationID, "",
                               "Registro de ONG solicitado"))
    /\ rret' = [rret EXCEPT ![g] =
                   [reg |-> NewRegistration(rloc[g].registrationID, rreq[g]),
                    err |-> NoError]]
    /\ rpc' = [rpc EXCEPT ![g] = "done"]
    /\ UNCHANGED <<ngoRegistrations, ngos, dsNgos, dsDonations, dsReceipts, expenses,
                   call, rreq, rloc, rlVars, fnVars, rtVars, exVars, apVars>>

NextConc ==
    \/ \E g \in Procs, req \in Requests : RegBegin(g, req)
    \/ \E g \in Procs : RegScan(g)
    \/ \E g \in Procs : RegBuild(g)
    \/ \E g \in Procs : RegAppendRead(g)
    \/ \E g \in Procs : RegAppendWrite(g)
    \/ \E g \in Procs : RegLogID(g)
    \/ \E g \in Procs : RegLogRead(g)
    \/ \E g \in Procs : RegLogWrite(g)

SpecConc == Init /\ [][NextConc]_vars

-----------------------------------------------------------------------------
(* ApproveNGO statement by statement, beside a reader: AdminService takes no lock,
   so the statements of concurrent calls interleave. Each append is taken as one
   step here; splitting it further only adds interleavings. *)

Reader == "reader"

\* no goroutine of this section has started
AllIdle == rdpc = "idle" /\ \A g \in Procs : apc[g] = "idle"

\* the approvals under way, each of which will still write one audit entry
ApprovalsUnderWay == {g \in Procs : apc[g] \notin {"idle", "done"}}

\* the request arrives
ApproveBegin(g, registrationID, adminID, comments) ==
    /\ apc[g] = "idle"
    /\ Len(auditLogs) + Cardinality(ApprovalsUnderWay) < MaxAuditLogs
    /\ aloc' = [aloc EXCEPT ![g] = [ZeroApproveLocals EXCEPT
                                        !.registrationID = registrationID,
                                        !.adminID = adminID,
                                        !.comments = comments]]
    /\ apc' = [apc EXCEPT ![g] = "find"]
    /\ UNCHANGED <<svcVars, call, goVars, aret, rdpc, obs, rlVars, fnVars, rtVars, exVars>>

\* the search loop, the two requirement tests on the copy it took, and the minted hash
ApproveFind(g, ch) ==
    /\ apc[g] = "find"
    /\ LET regIndex == IndexOfID(ngoRegistrations, aloc[g].registrationID)
       IN  IF regIndex = 0
           THEN /\ aret' = [aret EXCEPT ![g] = [ngo |-> ZeroNGO,
                                                err |-> ErrRegistrationNotFound]]
                /\ apc' = [apc EXCEPT ![g] = "done"]
                /\ UNCHANGED aloc
           ELSE IF ~ngoRegistrations[regIndex].CNPJValid
           THEN /\ aret' = [aret EXCEPT ![g] = [ngo |-> ZeroNGO,
                                                err |-> ErrCNPJNotValidated]]
                /\ apc' = [apc EXCEPT ![g] = "done"]
                /\ UNCHANGED aloc
           ELSE IF DocumentsMissing(ngoRegistrations[regIndex])
           THEN /\ aret' = [aret EXCEPT ![g] = [ngo |-> ZeroNGO, err |-> ErrNoDocuments]]
                /\ apc' = [apc EXCEPT ![g] = "done"]
                /\ UNCHANGED aloc
           ELSE /\ aloc' = [aloc EXCEPT
                               ![g].registration = ngoRegistrations[regIndex],
                               ![g].regIndex = regIndex,
                               ![g].blockchainRef = generateMockTransactionHash(ch)]
                /\ apc' = [apc EXCEPT ![g] = "writeRef"]
                /\ UNCHANGED aret
    /\ UNCHANGED <<svcVars, call, goVars, rdpc, obs, rlVars, fnVars, rtVars, exVars>>

\* s.ngoRegistrations[regIndex].BlockchainRef = blockchainRef
ApproveWriteRef(g) ==
    /\ apc[g] = "writeRef"
    /\ ngoRegistrations' =
          [ngoRegistrations EXCEPT ![aloc[g].regIndex].BlockchainRef = aloc[g].blockchainRef]
    /\ apc' = [apc EXCEPT ![g] = "writeStatus"]
    /\ UNCHANGED <<ngos, auditLogs, dsNgos, dsDonations, dsReceipts, expenses, call,
                   goVars, aloc, aret, rdpc, obs, rlVars, fnVars, rtVars, exVars>>

\* s.ngoRegistrations[regIndex].Status = models.NGOStatusApproved
ApproveWriteStatus(g) ==
    /\ apc[g] = "writeStatus"
    /\ ngoRegistrations' =
          [ngoRegistrations EXCEPT ![aloc[g].regIndex].Status = NGOStatusApproved]
    /\ apc' = [apc EXCEPT ![g] = "writeComments"]
    /\ UNCHANGED <<ngos, auditLogs, dsNgos, dsDonations, dsReceipts, expenses, call,
                   goVars, aloc, aret, rdpc, obs, rlVars, fnVars, rtVars, exVars>>

\* s.ngoRegistrations[regIndex].AdminComments = comments
ApproveWriteComments(g) ==
    /\ apc[g] = "writeComments"
    /\ ngoRegistrations' =
          [ngoRegistrations EXCEPT ![aloc[g].regIndex].AdminComments = aloc[g].comments]
    /\ apc' = [apc EXCEPT ![g] = "mintID"]
    /\ UNCHANGED <<ngos, auditLogs, dsNgos, dsDonations, dsReceipts, expenses, call,
                   goVars, aloc, aret, rdpc, obs, rlVars, fnVars, rtVars, exVars>>

\* ngoID := uint(len(s.ngos) + 1) and the NGO built from the copied registration
ApproveMintID(g) ==
    /\ apc[g] = "mintID"
    /\ aloc' = [aloc EXCEPT ![g].ngo = NewNGO(Len(ngos) + 1, aloc[g].registration,
                                              aloc[g].blockchainRef)]
    /\ apc' = [apc EXCEPT ![g] = "appendNgos"]
    /\ UNCHANGED <<svcVars, call, goVars, aret, rdpc, obs, rlVars, fnVars, rtVars, exVars>>

\* s.ngos = append(s.ngos, ngo)
ApproveAppendNgos(g) ==
    /\ apc[g] = "appendNgos"
    /\ ngos' = Append(ngos, aloc[g].ngo)
    /\ apc' = [apc EXCEPT ![g] = "appendDsNgos"]
    /\ UNCHANGED <<ngoRegistrations, auditLogs, dsNgos, dsDonations, dsReceipts, expenses,
                   call, goVars, aloc, aret, rdpc, obs, rlVars, fnVars, rtVars, exVars>>

\* s.donationService.ngos = append(s.donationService.ngos, ngo)
ApproveAppendDsNgos(g) ==
    /\ apc[g] = "appendDsNgos"
    /\ dsNgos' = Append(dsNgos, aloc[g].ngo)
    /\ apc' = [apc EXCEPT ![g] = "log"]
    /\ UNCHANGED <<ngoRegistrations, ngos, auditLogs, dsDonations, dsReceipts, expenses,
                   call, goVars, aloc, aret, rdpc, obs, rlVars, fnVars, rtVars, exVars>>

\* s.logAuditAction(adminID, "ngo_approved", ...) and return ngo, nil
ApproveLog(g) ==
    /\ apc[g] = "log"
    /\ auditLogs' = logAuditAction(auditLogs, aloc[g].adminID, "ngo_approved", "ngo",
                                   aloc[g].ngo.ID, NGOStatusValidating, NGOStatusApproved)
    /\ aret' = [aret EXCEPT ![g] = [ngo |-> aloc[g].ngo, err |-> NoError]]
    /\ apc' = [apc EXCEPT ![g] = "done"]
    /\ UNCHANGED <<ngoRegistrations, ngos, dsNgos, dsDonations, dsReceipts, expenses,
                   call, goVars, aloc, rdpc, obs, rlVars, fnVars, rtVars, exVars>>

\* the reader's first call: GetNGORegistrationByID
GetNGORegistrationByID(registrationID) ==
    /\ rdpc = "idle"
    /\ LET index == IndexOfID(ngoRegistrations, registrationID)
       IN  obs' = IF index = 0
                  THEN [obs EXCEPT !.err = ErrRegistrationNotFound]
                  ELSE [obs EXCEPT !.reg = ngoRegistrations[index]]
    /\ rdpc' = "gotRegistration"
    /\ UNCHANGED <<svcVars, call, goVars, apc, aloc, aret, rlVars, fnVars, rtVars, exVars>>

\* the reader's second call: GetAllNGOs
GetAllNGOs ==
    /\ rdpc = "gotRegistration"
    /\ obs' = [obs EXCEPT !.ngos = dsNgos]
    /\ rdpc' = "done"
    /\ UNCHANGED <<svcVars, call, goVars, apc, aloc, aret, rlVars, fnVars, rtVars, exVars>>

NextApprove ==
    \/ AllIdle /\ \E req \in Requests : RegisterNGO(req)
    \/ AllIdle /\ \E id \in RegistrationIDs, ch \in IpfsHashChars : UploadNGODocuments(id, ch)
    \/ \E g \in Procs, id \in RegistrationIDs, adminID \in AdminIDs :
          ApproveBegin(g, id, adminID, "aprovada")
    \/ \E g \in Procs, ch \in TxHashChars : ApproveFind(g, ch)
    \/ \E g \in Procs : ApproveWriteRef(g)
    \/ \E g \in Procs : ApproveWriteStatus(g)
    \/ \E g \in Procs : ApproveWriteComments(g)
    \/ \E g \in Procs : ApproveMintID(g)
    \/ \E g \in Procs : ApproveAppendNgos(g)
    \/ \E g \in Procs : ApproveAppendDsNgos(g)
    \/ \E g \in Procs : ApproveLog(g)
    \/ \E id \in RegistrationIDs : GetNGORegistrationByID(id)
    \/ GetAllNGOs

SpecApprove == Init /\ [][NextApprove]_vars


SpecRL == Init /\ [][RLNext_]_vars

-----------------------------------------------------------------------------
(* Properties of the RateLimiter *)

\* the admitted requests of caller c whose timestamps lie in the window (e - W, e]
WindowCount(c, e) ==
    Cardinality({i \in 1..Len(admissions[c]) :
                    /\ admissions[c][i] > e - WindowLength
                    /\ admissions[c][i] <= e})

Last(ts) == ts[Len(ts)]
Front(ts) == SubSeq(ts, 1, Len(ts) - 1)
IsSuffix(s, t) == Len(s) <= Len(t) /\ s = SubSeq(t, Len(t) - Len(s) + 1, Len(t))
MinOf(ts) == CHOOSE t \in {ts[i] : i \in 1..Len(ts)} : \A j \in 1..Len(ts) : t <= ts[j]

\* C1: under every interleaving of concurrent requests, no caller has more than
\* MaxRequests admitted requests whose timestamps fall in one window of length
\* WindowLength (the sliding window (e - W, e], for every instant e).
C1_WindowNeverExceeded ==
    \A c \in Callers, e \in Time : WindowCount(c, e) <= MaxRequests

\* C1 witness: a caller has used its whole budget in the window, one of its requests
\* has just been rejected and another request of the same caller waits for the lock.
C1_Witness ==
    \E p, q \in Procs :
        /\ p # q /\ ip[p] = ip[q]
        /\ pc[p] = "unlock" /\ resp[p].status = "429"
        /\ pc[q] = "lock"
        /\ WindowCount(ip[p], now[p]) = MaxRequests

\* C2: a request evaluated when MaxRequests admitted requests of its caller lie in the
\* current window is denied with remaining = 0; a request evaluated when every admitted
\* timestamp of its caller is at or before now - W is admitted.
C2_DenyThenRecover ==
    [][\A p \in Procs :
          (pc[p] = "check" /\ pc'[p] # "check") =>
             /\ (WindowCount(ip[p], now[p]) >= MaxRequests =>
                    /\ pc'[p] = "unlock"
                    /\ resp'[p].status = "429"
                    /\ resp'[p].remaining = 0)
             /\ ((\A i \in 1..Len(admissions[ip[p]]) :
                      admissions[ip[p]][i] <= now[p] - WindowLength) =>
                    pc'[p] = "append")]_vars

\* C2 witness: a caller that had used its whole budget is admitted again once all its
\* earlier timestamps have left the window.
C2_Witness ==
    \E p \in Procs :
        /\ pc[p] = "next"
        /\ Len(admissions[ip[p]]) = MaxRequests
        /\ \A i \in 1..Len(admissions[ip[p]]) :
               admissions[ip[p]][i] <= now[p] - WindowLength

\* C3: whenever a request is rejected, the reported reset time is the earliest
\* timestamp still retained for the caller plus the window length.
C3_ResetAtEarliestPlusWindow ==
    \A p \in Procs :
        (pc[p] = "unlock" /\ resp[p].status = "429") =>
            resp[p].reset = MinOf(ipLimits[ip[p]]) + WindowLength

\* C4: every recorded timestamp belongs to an admitted request (rejected requests
\* record nothing); an accepted request has appended exactly its own `now`, and its
\* reported remaining is MaxRequests minus the length after the append, in 0..N-1.
C4_AcceptAccounting ==
    \A c \in DOMAIN ipLimits :
        LET pend == {p \in Procs : pc[p] = "next" /\ ip[p] = c}
        IN  /\ Cardinality(pend) <= 1
            /\ IsSuffix(IF pend = {} THEN ipLimits[c] ELSE Front(ipLimits[c]),
                        admissions[c])
            /\ \A p \in pend :
                   /\ Last(ipLimits[c]) = now[p]
                   /\ resp[p].remaining = MaxRequests - Len(ipLimits[c])
                   /\ resp[p].remaining \in 0..(MaxRequests - 1)

\* C4 witness: an accepted request that took the last slot of the budget, while
\* another request of the same caller has been rejected before.
C4_Witness ==
    \E p \in Procs :
        /\ pc[p] = "next"
        /\ resp[p].remaining = 0
        /\ Len(ipLimits[ip[p]]) = MaxRequests
        /\ Len(admissions[ip[p]]) >= MaxRequests

-----------------------------------------------------------------------------
(* Properties of the registration workflow *)

RegIndices == 1..Len(ngoRegistrations)

\* no two registration records carry the same tax ID string
UniqueCNPJs ==
    \A i, j \in RegIndices : i # j => ngoRegistrations[i].CNPJ # ngoRegistrations[j].CNPJ

\* C6: called one at a time, a RegisterNGO whose tax ID is that of an existing
\* registration (whatever its status) or of a minted organization fails with a
\* duplicate-tax-ID error and leaves registrations, organizations and audit log
\* unchanged; so no two registration records ever carry the same tax ID string.
C6_DuplicateTaxIDRejected ==
    /\ [][(/\ call'.op = "RegisterNGO"
           /\ \/ \E i \in RegIndices : ngoRegistrations[i].CNPJ = call'.cnpj
              \/ \E j \in 1..Len(ngos) : ngos[j].CNPJ = call'.cnpj)
          => /\ call'.err \in {ErrCNPJRegistered, ErrCNPJActiveNGO}
             /\ UNCHANGED <<ngoRegistrations, ngos, auditLogs>>]_vars
    /\ []UniqueCNPJs

\* C6 witness: a second registration with the tax ID of an approved registration has
\* just been refused, next to another registration with a different tax ID.
C6_Witness ==
    /\ call.op = "RegisterNGO"
    /\ call.err = ErrCNPJRegistered
    /\ \E i \in RegIndices :
          /\ ngoRegistrations[i].CNPJ = call.cnpj
          /\ ngoRegistrations[i].Status = NGOStatusApproved
    /\ Len(ngoRegistrations) = 2

\* C7: when RegisterNGO calls with the same tax ID run concurrently on one service,
\* at most one of them succeeds and the registrations never hold two records with
\* that tax ID.
C7_ConcurrentRegisterUnique ==
    /\ UniqueCNPJs
    /\ \A g, h \in Procs :
          (/\ g # h
           /\ rpc[g] = "done" /\ rpc[h] = "done"
           /\ rreq[g].CNPJ = rreq[h].CNPJ)
          => ~(rret[g].err = NoError /\ rret[h].err = NoError)

\* C8: once a registration is Approved, no call changes its status.
C8_ApprovedIsTerminal ==
    [][\A i \in RegIndices :
          ngoRegistrations[i].Status = NGOStatusApproved
          => ngoRegistrations'[i].Status = NGOStatusApproved]_vars

\* C9: once a registration is Rejected, no call changes its status, and it never
\* mints an organization.
C9_RejectedIsTerminal ==
    [][\A i \in RegIndices :
          ngoRegistrations[i].Status = NGOStatusRejected
          => /\ ngoRegistrations'[i].Status = NGOStatusRejected
             /\ ngos' = ngos]_vars

\* C10: a registration's ledger reference is non-empty exactly when its status is
\* Approved.
C10_LedgerRefIffApproved ==
    \A i \in RegIndices :
        (ngoRegistrations[i].BlockchainRef # EmptyString)
        <=> (ngoRegistrations[i].Status = NGOStatusApproved)

\* C11: ApproveNGO fails with a precondition error and changes nothing when the
\* registration's checksum flag is false or its document reference is empty; it
\* succeeds (status Approved, non-empty ledger reference, the organization returned)
\* when the flag is true and a document reference is present; so every Approved
\* registration has a valid checksum flag and a non-empty document reference.
C11_ApprovalPreconditions ==
    /\ [][\A i \in RegIndices :
             (call'.op = "ApproveNGO" /\ call'.id = ngoRegistrations[i].ID) =>
                IF ~ngoRegistrations[i].CNPJValid
                      \/ ngoRegistrations[i].DocumentsIPFS = EmptyString
                THEN /\ call'.err \in {ErrCNPJNotValidated, ErrNoDocuments}
                     /\ UNCHANGED svcVars
                ELSE /\ call'.err = NoError
                     /\ ngoRegistrations'[i].Status = NGOStatusApproved
                     /\ ngoRegistrations'[i].BlockchainRef # EmptyString
                     /\ call'.ret.CNPJ = ngoRegistrations[i].CNPJ
                     /\ call'.ret.BlockchainRef = ngoRegistrations'[i].BlockchainRef
                     /\ call'.ret = ngos'[Len(ngos')]]_vars
    /\ [](\A i \in RegIndices :
             ngoRegistrations[i].Status = NGOStatusApproved =>
                /\ ngoRegistrations[i].CNPJValid
                /\ ngoRegistrations[i].DocumentsIPFS # EmptyString)

\* C11 witness: an approval has just succeeded on a registration with documents, while
\* another registration with a valid tax ID and no documents is still not approved.
C11_Witness ==
    /\ call.op = "ApproveNGO" /\ call.err = NoError
    /\ \E i, j \in RegIndices :
          /\ ngoRegistrations[i].ID = call.id
          /\ ngoRegistrations[i].Status = NGOStatusApproved
          /\ ngoRegistrations[i].BlockchainRef = call.ret.BlockchainRef
          /\ ngoRegistrations[j].CNPJValid
          /\ ngoRegistrations[j].DocumentsIPFS = EmptyString
          /\ ngoRegistrations[j].Status # NGOStatusApproved

\* C12: RegisterNGO stores the registration as Pending whether or not the tax ID passes
\* the checksum; a registration whose checksum failed is afterwards only ever Pending
\* or Rejected, because ValidateCNPJOnline, UploadNGODocuments and ApproveNGO all fail
\* on it and leave everything unchanged.
C12_SoftChecksumHardApproval ==
    /\ [][(call'.op = "RegisterNGO" /\ call'.err = NoError) =>
             /\ Len(ngoRegistrations') = Len(ngoRegistrations) + 1
             /\ call'.ret = Last(ngoRegistrations')
             /\ call'.ret.Status = NGOStatusPending
             /\ call'.ret.CNPJValid = validateCNPJFormat(call'.cnpj).valid]_vars
    /\ [][\A i \in RegIndices :
             ~ngoRegistrations[i].CNPJValid =>
                /\ ~ngoRegistrations'[i].CNPJValid
                /\ ngoRegistrations'[i].Status \in {NGOStatusPending, NGOStatusRejected}
                /\ (/\ call'.op \in {"ValidateCNPJOnline", "UploadNGODocuments",
                                     "ApproveNGO"}
                    /\ call'.id = ngoRegistrations[i].ID)
                   => (call'.err # NoError /\ UNCHANGED svcVars)]_vars
    /\ [](\A i \in RegIndices :
             ~ngoRegistrations[i].CNPJValid =>
                ngoRegistrations[i].Status \in {NGOStatusPending, NGOStatusRejected})

\* C12 witness: a registration with a failed checksum is stored, and an approval of it
\* has just been refused.
C12_Witness ==
    /\ call.op = "ApproveNGO" /\ call.err = ErrCNPJNotValidated
    /\ \E i \in RegIndices :
          /\ ngoRegistrations[i].ID = call.id
          /\ ngoRegistrations[i].CNPJ = CnpjBadCheck
          /\ ~ngoRegistrations[i].CNPJValid
          /\ ngoRegistrations[i].Status = NGOStatusPending

\* C13: under concurrent execution, a reader that sees a registration Approved with
\* its ledger reference finds the registration's organization in the listing it reads
\* next: approval shows both or neither.
C13_ApprovalAtomicForReaders ==
    (/\ rdpc = "done"
     /\ obs.reg.Status = NGOStatusApproved
     /\ obs.reg.BlockchainRef # EmptyString)
    => \E j \in 1..Len(obs.ngos) :
          /\ obs.ngos[j].CNPJ = obs.reg.CNPJ
          /\ obs.ngos[j].BlockchainRef = obs.reg.BlockchainRef

\* C14: every call that fails (duplicate tax ID, record not found, precondition not
\* met, unknown entity type) leaves the registrations, the organizations and the
\* audit log exactly as they were before the call.
C14_NoPartialMutationOnFailure ==
    [][call'.err # NoError =>
          /\ ngoRegistrations' = ngoRegistrations
          /\ ngos' = ngos
          /\ dsNgos' = dsNgos
          /\ auditLogs' = auditLogs]_vars

\* C14 witness: with registrations, an organization and audit entries in store, a
\* call has just failed.
C14_Witness ==
    /\ call.err \in {ErrCNPJRegistered, ErrCNPJActiveNGO, ErrRegistrationNotFound,
                     ErrUploadNeedsValidCNPJ, ErrCNPJNotValidated, ErrNoDocuments,
                     ErrNGONotFound, ErrUnknownEntityType}
    /\ Len(ngoRegistrations) = MaxRegistrations
    /\ Len(ngos) > 0
    /\ Len(auditLogs) > Len(ngoRegistrations)

IsPrefix(s, t) == Len(s) <= Len(t) /\ s = SubSeq(t, 1, Len(s))

\* C15: the audit log only grows at its end: across every step of every execution the
\* log before the step is a prefix of the log after it; no entry is removed,
\* reordered or rewritten.
C15_AuditAppendOnly == [][IsPrefix(auditLogs, auditLogs')]_vars

\* the AdminService operations that write the audit trail
AuditedOps == {"RegisterNGO", "ValidateCNPJOnline", "UploadNGODocuments", "ApproveNGO",
               "RejectNGO", "AuditEntity"}

\* C16: every successful RegisterNGO, ValidateCNPJOnline, UploadNGODocuments, ApproveNGO
\* and RejectNGO, and every AuditEntity that returns a result (its references valid or
\* not), appends exactly one audit entry, and nothing else touches the log; the log,
\* empty at the start, therefore has one entry per successful call made so far.
C16_OneEntryPerSuccess ==
    [][IF call'.op \in AuditedOps /\ call'.err = NoError
       THEN /\ Len(auditLogs') = Len(auditLogs) + 1
            /\ SubSeq(auditLogs', 1, Len(auditLogs)) = auditLogs
            /\ Last(auditLogs').ID = Len(auditLogs')
       ELSE auditLogs' = auditLogs]_vars

\* C16 witness: after three successful workflow calls, an audit of a pending donation
\* has returned a result listing validation errors, and the log has four entries.
C16_Witness ==
    /\ call.op = "AuditEntity" /\ call.err = NoError
    /\ call.ret.EntityType = "donation"
    /\ ~call.ret.BlockchainValid /\ ~call.ret.IPFSValid
    /\ Len(call.ret.ValidationErrors) = 2
    /\ Len(auditLogs) = 4
    /\ Last(auditLogs).Action = "audit_performed"
    /\ \E i \in 1..Len(auditLogs) : auditLogs[i].Action = "ngo_approved"

\* the audit action each operation writes
ActionOf ==
    [RegisterNGO |-> "ngo_registration_created", ValidateCNPJOnline |-> "cnpj_validated",
     UploadNGODocuments |-> "documents_uploaded", ApproveNGO |-> "ngo_approved",
     RejectNGO |-> "ngo_rejected", AuditEntity |-> "audit_performed"]

RECURSIVE IsSubsequence(_, _)
\* sub can be obtained from full by deleting entries, the order of the others kept
IsSubsequence(sub, full) ==
    IF sub = << >> THEN TRUE
    ELSE IF full = << >> THEN FALSE
    ELSE IF Head(sub) = Head(full) THEN IsSubsequence(Tail(sub), Tail(full))
    ELSE IsSubsequence(sub, Tail(full))

\* C17: the entry of each successful call is placed after all earlier entries, so
\* after RegisterNGO, ValidateCNPJOnline, UploadNGODocuments and ApproveNGO run in that
\* order on one registration the unfiltered log holds their four entries in that
\* order; and the log filtered by any entity type is a subsequence of the unfiltered
\* log, relative order preserved, made of exactly the entries of that type.
C17_OnboardingOrder ==
    /\ [][(call'.op \in AuditedOps /\ call'.err = NoError) =>
             /\ auditLogs' = Append(auditLogs, Last(auditLogs'))
             /\ Last(auditLogs').Action = ActionOf[call'.op]]_vars
    /\ [](\A t \in QueryEntityTypes :
             /\ IsSubsequence(GetAuditLogsByEntityType(t), GetAuditLogs)
             /\ \A i \in 1..Len(GetAuditLogsByEntityType(t)) :
                   GetAuditLogsByEntityType(t)[i].EntityType = t
             /\ Len(GetAuditLogsByEntityType(t)) =
                   Cardinality({i \in 1..Len(auditLogs) : auditLogs[i].EntityType = t}))

\* C17 witness: the four calls were made in order on registration 1; the log holds
\* their entries in that order and each filter by type keeps a strict part of it.
C17_Witness ==
    /\ call.op = "ApproveNGO" /\ call.err = NoError
    /\ Len(auditLogs) = 4
    /\ [i \in 1..4 |-> auditLogs[i].Action] =
          <<"ngo_registration_created", "cnpj_validated", "documents_uploaded",
            "ngo_approved">>
    /\ \A i \in 1..3 : auditLogs[i].EntityID = ApplicantID
    /\ GetAuditLogsByEntityType("ngo_registration") = SubSeq(auditLogs, 1, 3)
    /\ GetAuditLogsByEntityType("ngo") = SubSeq(auditLogs, 4, 4)

\* the entries the supplied filters select: every filter given must match
MatchingLogs(entityType, entityIDStr) ==
    SelectSeq(auditLogs,
              LAMBDA log : /\ (entityType # "" => log.EntityType = entityType)
                           /\ (entityIDStr # EmptyString =>
                                  log.EntityID = ParseUint(entityIDStr)))

\* C18: for every combination of the optional filters (none, entity type only, entity
\* ID only, both) the GetAuditLogs handler returns exactly the entries that match
\* every supplied filter, in insertion order; a query by entity ID alone returns no
\* entry of another entity ID.
C18_AuditLogFiltering ==
    \A t \in QueryEntityTypes, id \in QueryEntityIDs :
       /\ GetAuditLogsHandler(t, id).status = StatusOK
       /\ GetAuditLogsHandler(t, id).logs = MatchingLogs(t, id)

\* C19: the audit entry appended by an AuditEntity call carries the same ledger
\* validity flag, store validity flag and list of validation errors as the result
\* the call returned.
C19_OutcomeRecordedInEntry ==
    (call.op = "AuditEntity" /\ call.err = NoError) =>
       /\ Last(auditLogs).Action = "audit_performed"
       /\ Last(auditLogs).BlockchainValid = call.ret.BlockchainValid
       /\ Last(auditLogs).IPFSValid = call.ret.IPFSValid
       /\ Last(auditLogs).ValidationErrors = call.ret.ValidationErrors

\* C20: for every successful ValidateCNPJOnline, ApproveNGO and RejectNGO the entry
\* appended has as previous state the status the registration had immediately before
\* the call and as new state the status it has immediately after; the ApproveNGO
\* entry says validando -> aprovado only when the registration was validando.
C20_EntryRecordsRealTransition ==
    [][\A i \in RegIndices :
          (/\ call'.op \in {"ValidateCNPJOnline", "ApproveNGO", "RejectNGO"}
           /\ call'.err = NoError
           /\ call'.id = ngoRegistrations[i].ID)
          => /\ Last(auditLogs').PreviousState = ngoRegistrations[i].Status
             /\ Last(auditLogs').NewState = ngoRegistrations'[i].Status]_vars

\* the two-character ledger prefix followed by exactly 64 hexadecimal characters
IsLedgerShaped(str) ==
    /\ Len(str) = 66
    /\ str[1] = "0" /\ str[2] = "x"
    /\ \A i \in 3..66 :
          str[i] \in {"0", "1", "2", "3", "4", "5", "6", "7", "8", "9", "a", "b", "c", "d",
                      "e", "f", "A", "B", "C", "D", "E", "F"}

\* the two-character content-address prefix and at least 46 characters overall
IsStoreShaped(str) == Len(str) >= 46 /\ str[1] = "Q" /\ str[2] = "m"

\* C21: for every reference string the ledger flag is true exactly when the string is
\* the ledger prefix followed by exactly 64 hexadecimal characters, the store flag is
\* true exactly when the string starts with the content-address prefix and has at
\* least 46 characters; the error list has one message per failed check and is empty
\* exactly when both flags are true.
C21_ReferenceFormatChecks ==
    fin.fn = "verify" =>
       /\ fout.outcome.BlockchainValid = IsLedgerShaped(fin.blockchainRef)
       /\ fout.outcome.IPFSValid = IsStoreShaped(fin.ipfsRef)
       /\ Len(fout.outcome.ValidationErrors) =
             (IF fout.outcome.BlockchainValid THEN 0 ELSE 1)
             + (IF fout.outcome.IPFSValid THEN 0 ELSE 1)
       /\ (fout.outcome.ValidationErrors = << >>) =
             (fout.outcome.BlockchainValid /\ fout.outcome.IPFSValid)

\* C21 witness: a well-formed ledger reference beside a store reference of exactly 46
\* characters, both accepted with no error message.
C21_Witness ==
    /\ fin.fn = "verify"
    /\ Len(fin.blockchainRef) = 66 /\ fin.blockchainRef[66] = "F"
    /\ Len(fin.ipfsRef) = 46
    /\ fout.outcome.BlockchainValid /\ fout.outcome.IPFSValid
    /\ fout.outcome.ValidationErrors = << >>

\* C22: an AuditEntity call, successful or not, leaves every registration,
\* organization, donation, receipt and expense as it was; the only state it may
\* change is the audit log, by one appended entry.
C22_VerifyTouchesOnlyTheLog ==
    [][call'.op = "AuditEntity" =>
          /\ UNCHANGED <<ngoRegistrations, ngos, dsNgos, dsDonations, dsReceipts, expenses>>
          /\ \/ auditLogs' = auditLogs
             \/ /\ Len(auditLogs') = Len(auditLogs) + 1
                /\ SubSeq(auditLogs', 1, Len(auditLogs)) = auditLogs]_vars

\* C22 witness: with a registration, an organization and a donation in store, an audit
\* of the organization has just returned its result.
C22_Witness ==
    /\ call.op = "AuditEntity" /\ call.err = NoError
    /\ call.ret.EntityType = "ngo"
    /\ Len(ngoRegistrations) > 0 /\ Len(ngos) > 0 /\ Len(dsDonations) > 0
    /\ Last(auditLogs).Action = "audit_performed"

\* an entity of a known type with the given ID is in store
EntityInStore(entityType, entityID) ==
    CASE entityType = "ngo" -> \E i \in 1..Len(ngos) : ngos[i].ID = entityID
      [] entityType = "donation" -> \E i \in 1..Len(dsDonations) : dsDonations[i].ID = entityID
      [] entityType = "expense" -> \E i \in 1..Len(expenses) : expenses[i].ID = entityID

\* C23: AuditEntity fails with the unknown-entity-type error for every entity type
\* other than ngo, donation and expense, and with a not-found error when the type is
\* known but no entity of that type has the ID; in both cases no validity flag is
\* reported true and no audit entry is appended.
C23_VerifyErrorOutcomes ==
    [][call'.op = "AuditEntity" =>
          IF call'.ret.EntityType \notin {"ngo", "donation", "expense"}
          THEN /\ call'.err = ErrUnknownEntityType
               /\ ~call'.ret.BlockchainValid /\ ~call'.ret.IPFSValid
               /\ auditLogs' = auditLogs
          ELSE IF ~EntityInStore(call'.ret.EntityType, call'.id)
          THEN /\ call'.err \in {ErrNGONotFound, ErrDonationNotFound, ErrExpenseNotFound}
               /\ ~call'.ret.BlockchainValid /\ ~call'.ret.IPFSValid
               /\ auditLogs' = auditLogs
          ELSE call'.err = NoError]_vars

\* C23 witness: with audit entries and a donation in store, an audit of an
\* organization that does not exist has just failed.
C23_Witness ==
    /\ call.op = "AuditEntity" /\ call.err = ErrNGONotFound
    /\ call.ret.EntityType = "ngo"
    /\ Len(ngos) = 0 /\ Len(dsDonations) > 0 /\ Len(auditLogs) > 1

\* the digits of a string, in order
DigitsOf(str) ==
    SelectSeq(str, LAMBDA ch : ch \in {"0", "1", "2", "3", "4", "5", "6", "7", "8", "9"})

\* the value of a digit character
ValueOf(ch) == CHOOSE v \in 0..9 : <<"0", "1", "2", "3", "4", "5", "6", "7", "8", "9">>[v + 1] = ch

RECURSIVE SumProducts(_, _)
\* ds[1] * ws[1] + ... over the length of ws
SumProducts(ds, ws) ==
    IF ws = << >> THEN 0
    ELSE ValueOf(Head(ds)) * Head(ws) + SumProducts(Tail(ds), Tail(ws))

\* 0 if the sum mod 11 is below 2, else 11 minus it
CheckDigit(sum) == IF sum % 11 < 2 THEN 0 ELSE 11 - (sum % 11)

\* the reference rule: 14 digits, not all identical, both check digits right
ReferenceValid(str) ==
    LET ds == DigitsOf(str)
    IN  /\ Len(ds) = 14
        /\ \E i \in 1..14 : ds[i] # ds[1]
        /\ ValueOf(ds[13]) = CheckDigit(SumProducts(ds, <<5, 4, 3, 2, 9, 8, 7, 6, 5, 4, 3, 2>>))
        /\ ValueOf(ds[14]) =
              CheckDigit(SumProducts(ds, <<6, 5, 4, 3, 2, 9, 8, 7, 6, 5, 4, 3, 2>>))

\* C24: for every input string validateCNPJFormat returns valid exactly when, the
\* non-digits removed, the string has 14 digits, not all identical, whose 13th and
\* 14th digits are the two check digits (weights 5,4,3,2,9,8,7,6,5,4,3,2 and
\* 6,5,4,3,2,9,8,7,6,5,4,3,2, sum mod 11, 0 below 2, else 11 minus it); the result
\* depends only on the digits of the input, and the length test comes before the
\* all-identical test.
C24_ChecksumReference ==
    fin.fn = "validateCNPJFormat" =>
       /\ fout.valid = ReferenceValid(fin.raw)
       /\ fout.valid = validateCNPJFormat(DigitsOf(fin.raw)).valid
       /\ fout.msg = validateCNPJFormat(DigitsOf(fin.raw)).msg
       /\ Len(DigitsOf(fin.raw)) # 14 => fout.msg = "CNPJ deve conter 14 digitos"
       /\ fout.valid = (fout.msg = "CNPJ valido")

\* C24 witness: a punctuated string whose 14 digits carry the right check digits was
\* found valid.
C24_Witness ==
    /\ fin.fn = "validateCNPJFormat"
    /\ Len(fin.raw) > 14 /\ Len(DigitsOf(fin.raw)) = 14
    /\ fout.valid

\* C25: each of the ten strings of 14 identical digits is found invalid with the
\* "all digits equal" message, never a check-digit message, also the one whose check
\* digits would match.
C25_IdenticalDigitsRejected ==
    (/\ fin.fn = "validateCNPJFormat"
     /\ Len(fin.raw) = 14
     /\ \A i \in 1..14 : fin.raw[i] = fin.raw[1] /\ fin.raw[1] \in Digits)
    => /\ ~fout.valid
       /\ fout.msg = "CNPJ invalido: todos os digitos sao iguais"

\* C25 witness: fourteen zeros, whose check digits are both 0 as the rule computes
\* them, were refused for being identical.
C25_Witness ==
    /\ fin.fn = "validateCNPJFormat"
    /\ fin.raw = [i \in 1..14 |-> "0"]
    /\ CheckDigit(SumProducts(fin.raw, <<5, 4, 3, 2, 9, 8, 7, 6, 5, 4, 3, 2>>)) = 0
    /\ CheckDigit(SumProducts(fin.raw, <<6, 5, 4, 3, 2, 9, 8, 7, 6, 5, 4, 3, 2>>)) = 0
    /\ fout.msg = "CNPJ invalido: todos os digitos sao iguais"

\* a string with its n-th character replaced by ch
WithDigit(str, n, ch) == [str EXCEPT ![n] = ch]

\* C26: for every tax ID that validateCNPJFormat accepts, replacing its 13th or its
\* 14th digit by any different digit gives a tax ID that it rejects.
C26_CheckDigitSensitivity ==
    (fin.fn = "validateCNPJFormat" /\ fout.valid) =>
       \A n \in {13, 14}, ch \in Digits :
          ch # DigitsOf(fin.raw)[n] =>
             ~validateCNPJFormat(WithDigit(DigitsOf(fin.raw), n, ch)).valid

\* C26 witness: an accepted tax ID of the inputs, all of whose one-digit variants in
\* the two check positions are inputs too.
C26_Witness ==
    /\ fin.fn = "validateCNPJFormat" /\ fout.valid
    /\ Len(fin.raw) = 14
    /\ \A n \in {13, 14}, ch \in Digits : WithDigit(fin.raw, n, ch) \in ChecksumInputs

\* the status changes of the registration state machine
AllowedTransitions ==
    { <<NGOStatusPending, NGOStatusValidating>>, <<NGOStatusValidating, NGOStatusApproved>>,
      <<NGOStatusPending, NGOStatusRejected>>, <<NGOStatusValidating, NGOStatusRejected>> }

\* C27: every successful ApproveNGO acts on a registration whose status is validando,
\* so no registration goes from pendente to aprovado without a successful
\* ValidateCNPJOnline in between, and the only status changes that occur are
\* pendente -> validando, validando -> aprovado, pendente -> rejeitado and
\* validando -> rejeitado.
C27_ApprovedOnlyThroughValidating ==
    [][\A i \in RegIndices :
          /\ (/\ call'.op = "ApproveNGO"
              /\ call'.err = NoError
              /\ call'.id = ngoRegistrations[i].ID)
             => ngoRegistrations[i].Status = NGOStatusValidating
          /\ ngoRegistrations'[i].Status # ngoRegistrations[i].Status
             => <<ngoRegistrations[i].Status, ngoRegistrations'[i].Status>>
                   \in AllowedTransitions]_vars

\* C28: ValidateCNPJOnline fails with the not-found error for an unknown registration
\* ID; fails with the validation message stored at registration when the stored
\* checksum flag is false; otherwise sets the status to validando, keeps the flag
\* true and appends exactly one audit entry. No operation ever changes the checksum
\* flag of a registration from the value computed at registration.
C28_ValidateOnlineOutcomes ==
    /\ [][call'.op = "ValidateCNPJOnline" =>
             IF \A i \in RegIndices : ngoRegistrations[i].ID # call'.id
             THEN call'.err = ErrRegistrationNotFound /\ UNCHANGED svcVars
             ELSE \A i \in RegIndices :
                     ngoRegistrations[i].ID = call'.id =>
                        IF ~ngoRegistrations[i].CNPJValid
                        THEN /\ call'.err = validateCNPJFormat(ngoRegistrations[i].CNPJ).msg
                             /\ call'.err = ngoRegistrations[i].CNPJValidationMsg
                             /\ call'.err # NoError
                             /\ UNCHANGED svcVars
                        ELSE /\ call'.err = NoError
                             /\ ngoRegistrations'[i].Status = NGOStatusValidating
                             /\ ngoRegistrations'[i].CNPJValid
                             /\ Len(auditLogs') = Len(auditLogs) + 1
                             /\ SubSeq(auditLogs', 1, Len(auditLogs)) = auditLogs]_vars
    /\ [][\A i \in RegIndices :
             ngoRegistrations'[i].CNPJValid = ngoRegistrations[i].CNPJValid]_vars
    /\ [](\A i \in RegIndices :
             ngoRegistrations[i].CNPJValid = validateCNPJFormat(ngoRegistrations[i].CNPJ).valid)

\* C28 witness: an online validation of a registration with a failed checksum has
\* just been refused with the stored message, after one of another registration
\* succeeded.
C28_Witness ==
    /\ call.op = "ValidateCNPJOnline"
    /\ call.err = "CNPJ invalido: segundo digito verificador incorreto"
    /\ \E i, j \in RegIndices :
          /\ ngoRegistrations[i].ID = call.id
          /\ ngoRegistrations[i].CNPJValidationMsg = call.err
          /\ ngoRegistrations[j].Status = NGOStatusValidating
          /\ ngoRegistrations[j].CNPJValid

\* C29: a successful UploadNGODocuments sets the registration's document reference to
\* a non-empty, well-formed store reference and appends one audit entry; it changes
\* neither the registration's status, checksum flag or ledger reference, nor any other
\* registration, nor any organization.
C29_UploadFrame ==
    [][(call'.op = "UploadNGODocuments" /\ call'.err = NoError) =>
          /\ \E i \in RegIndices :
                /\ ngoRegistrations[i].ID = call'.id
                /\ ngoRegistrations'[i].DocumentsIPFS # EmptyString
                /\ IsStoreShaped(ngoRegistrations'[i].DocumentsIPFS)
                /\ ngoRegistrations' =
                      [ngoRegistrations EXCEPT
                          ![i].DocumentsIPFS = ngoRegistrations'[i].DocumentsIPFS]
                /\ call'.ret = ngoRegistrations'[i]
          /\ ngos' = ngos /\ dsNgos' = dsNgos
          /\ Len(auditLogs') = Len(auditLogs) + 1
          /\ SubSeq(auditLogs', 1, Len(auditLogs)) = auditLogs
          /\ Last(auditLogs').Action = "documents_uploaded"]_vars

\* C29 witness: documents were just uploaded for a registration that is validando
\* and still has no ledger reference, beside a second registration.
C29_Witness ==
    /\ call.op = "UploadNGODocuments" /\ call.err = NoError
    /\ Len(ngoRegistrations) = 2
    /\ \E i \in RegIndices :
          /\ ngoRegistrations[i].ID = call.id
          /\ ngoRegistrations[i].Status = NGOStatusValidating
          /\ ngoRegistrations[i].BlockchainRef = EmptyString
          /\ ngoRegistrations[i].DocumentsIPFS # EmptyString

\* C30: when an enabled limiter has evaluated a request of a caller (the handler is about
\* to return, still holding the mutex), the caller's sequence holds only timestamps
\* strictly later than now - W, is in non-decreasing order and has at most N entries.
C30_WindowPruned ==
    \A p \in Procs :
        (pc[p] = "unlock" /\ mutex = p) =>
            LET ts == ipLimits[ip[p]]
            IN /\ \A i \in 1..Len(ts) : ts[i] > now[p] - WindowLength
               /\ \A i, j \in 1..Len(ts) : i < j => ts[i] <= ts[j]
               /\ Len(ts) <= MaxRequests

\* C30 witness: an evaluation has ended for a caller one of whose admitted requests,
\* made exactly W before, was dropped, and whose sequence now holds two timestamps.
C30_Witness ==
    \E p \in Procs :
        /\ pc[p] = "unlock" /\ mutex = p
        /\ now[p] >= WindowLength
        /\ \E i \in 1..Len(admissions[ip[p]]) :
              admissions[ip[p]][i] = now[p] - WindowLength
        /\ Len(ipLimits[ip[p]]) = 2
        /\ ipLimits[ip[p]][1] < ipLimits[ip[p]][2]

-----------------------------------------------------------------------------
(* Organizations minted by approval *)

\* C31: at most one organization is ever minted from a registration, so no two
\* organizations of the approved collection share a tax ID.
C31_OneOrganizationPerRegistration ==
    \A i, j \in 1..Len(ngos) : i # j => ngos[i].CNPJ # ngos[j].CNPJ

\* C32: for every minted organization there is a registration with status aprovado
\* whose tax ID, document reference and ledger reference equal the organization's.
C32_OrganizationMatchesRegistration ==
    \A k \in 1..Len(ngos) :
        \E i \in RegIndices :
            /\ ngoRegistrations[i].Status = NGOStatusApproved
            /\ ngoRegistrations[i].CNPJ = ngos[k].CNPJ
            /\ ngoRegistrations[i].DocumentsIPFS = ngos[k].DocumentsIPFS
            /\ ngoRegistrations[i].BlockchainRef = ngos[k].BlockchainRef

\* DonationService.GetNGOByID over the service's list: the first organization with the ID
GetNGOByID(serviceNgos, id) ==
    LET index == IndexOfID(serviceNgos, id)
    IN  IF index = 0
        THEN [ngo |-> ZeroNGO, err |-> ErrNGONotFound]
        ELSE [ngo |-> serviceNgos[index], err |-> NoError]

\* C33: after a successful ApproveNGO returned an organization with ID k, looking up k
\* in the donation service's list returns that organization, and the IDs in that list
\* (seeded organizations included) are pairwise distinct.
C33_MintedOrganizationAddressable ==
    /\ [][(call'.op = "ApproveNGO" /\ call'.err = NoError) =>
             GetNGOByID(dsNgos', call'.ret.ID) = [ngo |-> call'.ret, err |-> NoError]]_vars
    /\ [](\A i, j \in 1..Len(dsNgos) : i # j => dsNgos[i].ID # dsNgos[j].ID)

\* C34: every organization minted by ApproveNGO carries a ledger reference and a
\* document reference that pass the format checks, and every successful AuditEntity
\* of an organization returns both flags true and no validation error.
C34_MintedReferencesVerify ==
    /\ [](\A k \in 1..Len(ngos) :
             /\ ResolveReferences("ngo", ngos[k].ID).found
             /\ VerifyOutcome(ngos[k].BlockchainRef, ngos[k].DocumentsIPFS) =
                   [BlockchainValid |-> TRUE, IPFSValid |-> TRUE,
                    ValidationErrors |-> << >>])
    /\ [][(call'.op = "AuditEntity" /\ call'.err = NoError
                                   /\ call'.ret.EntityType = "ngo") =>
             /\ call'.ret.BlockchainValid
             /\ call'.ret.IPFSValid
             /\ call'.ret.ValidationErrors = << >>
             /\ \E k \in 1..Len(ngos) :
                   /\ ngos[k].ID = call'.id
                   /\ call'.ret.BlockchainRef = ngos[k].BlockchainRef
                   /\ call'.ret.IPFSRef = ngos[k].DocumentsIPFS]_vars

\* C34 witness: an organization minted by an approval has just been audited.
C34_Witness ==
    /\ call.op = "AuditEntity" /\ call.err = NoError
    /\ call.ret.EntityType = "ngo"
    /\ \E k \in 1..Len(ngos) : ngos[k].ID = call.id
    /\ \E i \in RegIndices : ngoRegistrations[i].Status = NGOStatusApproved
    /\ call.ret.BlockchainValid /\ call.ret.IPFSValid

\* C35: tax IDs with the same digits after stripping the non-digit characters are the
\* same tax ID: a RegisterNGO whose digits are already registered fails with the
\* duplicate error, and no two registrations ever share a digit sequence.
C35_UniquenessIgnoresFormatting ==
    /\ [][(call'.op = "RegisterNGO" /\
           \E i \in RegIndices :
               StripNonDigits(ngoRegistrations[i].CNPJ) = StripNonDigits(call'.cnpj)) =>
             call'.err = ErrCNPJRegistered /\ UNCHANGED svcVars]_vars
    /\ [](\A i, j \in RegIndices :
             i # j => StripNonDigits(ngoRegistrations[i].CNPJ) #
                      StripNonDigits(ngoRegistrations[j].CNPJ))

\* C36: while concurrent RegisterNGO calls carry distinct tax IDs, registration IDs are
\* pairwise distinct, audit entry IDs are pairwise distinct, and every registration a
\* call returned successfully is in the collection with its audit entry in the log.
C36_IdentifiersUniqueUnderConcurrency ==
    (\A g, h \in Procs :
        (g # h /\ rpc[g] # "idle" /\ rpc[h] # "idle") => rreq[g].CNPJ # rreq[h].CNPJ)
    =>
    /\ \A i, j \in RegIndices : i # j => ngoRegistrations[i].ID # ngoRegistrations[j].ID
    /\ \A i, j \in 1..Len(auditLogs) : i # j => auditLogs[i].ID # auditLogs[j].ID
    /\ \A g \in Procs :
          (rpc[g] = "done" /\ rret[g].err = NoError) =>
             /\ \E i \in RegIndices : ngoRegistrations[i] = rret[g].reg
             /\ \E k \in 1..Len(auditLogs) :
                   /\ auditLogs[k].Action = "ngo_registration_created"
                   /\ auditLogs[k].EntityID = rret[g].reg.ID

-----------------------------------------------------------------------------
(* routes.SetupRoutes: HTTP requests served one at a time through the middleware
   chain of their route group *)

MaxServed == 4   \* no further HTTP request arrives once this many were served

StatusCreated == 201
StatusUnauthorized == 401
StatusTooManyRequests == 429

\* the X-Admin-ID header of a request: absent, or an administrator's ID
AdminHeaders == {"", "7"}

\* the body posted to /admin/ngos/register
RouteRequests == {[Name |-> "ONG", CNPJ |-> CnpjValid]}

\* an evaluation that prunes the windows of all callers
RateLimitPruningAll(rl, c, t) ==
    IF ~rl.enabled
    THEN [rl |-> rl, next |-> TRUE]
    ELSE LET validTime == t - rl.windowLength
             pruned == [k \in DOMAIN rl.ipLimits \cup {c} |->
                           IF k \in DOMAIN rl.ipLimits
                           THEN ValidRequests(rl.ipLimits[k], validTime)
                           ELSE << >>]
         IN  IF Len(pruned[c]) >= rl.maxRequests
             THEN [rl |-> [rl EXCEPT !.ipLimits = pruned], next |-> FALSE]
             ELSE [rl |-> [rl EXCEPT !.ipLimits = [pruned EXCEPT ![c] = Append(@, t)]],
                   next |-> TRUE]

\* the handler returned by rl.RateLimit(), run for caller c at time t: the limiter
\* afterwards and whether c.Next() was called
RateLimit(rl, c, t) ==
    IF ~rl.enabled
    THEN [rl |-> rl, next |-> TRUE]
    ELSE LET validTime == t - rl.windowLength
             validRequests == IF c \in DOMAIN rl.ipLimits
                              THEN ValidRequests(rl.ipLimits[c], validTime)
                              ELSE << >>
             pruned == [k \in DOMAIN rl.ipLimits \cup {c} |->
                           IF k = c THEN validRequests ELSE rl.ipLimits[k]]
         IN  IF Len(validRequests) >= rl.maxRequests
             THEN [rl |-> [rl EXCEPT !.ipLimits = pruned], next |-> FALSE]
             ELSE [rl |-> [rl EXCEPT !.ipLimits = [pruned EXCEPT ![c] = Append(@, t)]],
                   next |-> TRUE]

\* AdminMiddleware lets the request through only with an X-Admin-ID header
AdminMiddleware(adminID) == adminID # ""

\* a request to a public route: publicRateLimiter.RateLimit(), then the controller
\* (ListNGOs, which only reads)
PublicRoutes(c) ==
    /\ served < MaxServed
    /\ served' = served + 1
    /\ LET limit == RateLimit(publicRateLimiter, c, clock)
       IN  /\ publicRateLimiter' = limit.rl
           /\ httpResp' = [group |-> "public", ip |-> c, adminID |-> "",
                           status |-> IF limit.next THEN StatusOK
                                      ELSE StatusTooManyRequests]
    /\ UNCHANGED <<adminRateLimiter, svcVars, call, goVars, apVars, fnVars, rlVars, exVars>>

\* an /admin group whose limiter runs before AdminMiddleware
AdminRoutesLimitedFirst(c, adminID, req) ==
    /\ served < MaxServed
    /\ served' = served + 1
    /\ LET limit == RateLimit(adminRateLimiter, c, clock)
       IN  /\ adminRateLimiter' = limit.rl
           /\ IF ~limit.next
              THEN /\ httpResp' = [group |-> "admin", ip |-> c, adminID |-> adminID,
                                   status |-> StatusTooManyRequests]
                   /\ UNCHANGED <<svcVars, call>>
              ELSE IF ~AdminMiddleware(adminID)
              THEN /\ httpResp' = [group |-> "admin", ip |-> c, adminID |-> adminID,
                                   status |-> StatusUnauthorized]
                   /\ UNCHANGED <<svcVars, call>>
              ELSE /\ RegisterNGOCall(req)
                   /\ httpResp' = [group |-> "admin", ip |-> c, adminID |-> adminID,
                                   status |-> IF call'.err = NoError THEN StatusCreated
                                              ELSE StatusBadRequest]
    /\ UNCHANGED <<publicRateLimiter, goVars, apVars, fnVars, rlVars, exVars>>

\* a request to POST /admin/ngos/register: AdminMiddleware, then
\* adminRateLimiter.RateLimit(), then the controller RegisterNGO
AdminRoutes(c, adminID, req) ==
    /\ served < MaxServed
    /\ served' = served + 1
    /\ IF ~AdminMiddleware(adminID)
       THEN /\ httpResp' = [group |-> "admin", ip |-> c, adminID |-> adminID,
                            status |-> StatusUnauthorized]
            /\ UNCHANGED <<adminRateLimiter, svcVars, call>>
       ELSE LET limit == RateLimit(adminRateLimiter, c, clock)
            IN  /\ adminRateLimiter' = limit.rl
                /\ IF ~limit.next
                   THEN /\ httpResp' = [group |-> "admin", ip |-> c, adminID |-> adminID,
                                        status |-> StatusTooManyRequests]
                        /\ UNCHANGED <<svcVars, call>>
                   ELSE /\ RegisterNGOCall(req)
                        /\ httpResp' = [group |-> "admin", ip |-> c, adminID |-> adminID,
                                        status |-> IF call'.err = NoError
                                                   THEN StatusCreated
                                                   ELSE StatusBadRequest]
    /\ UNCHANGED <<publicRateLimiter, goVars, apVars, fnVars, rlVars, exVars>>

NextRoutes ==
    \/ Tick
    \/ \E c \in Callers : PublicRoutes(c)
    \/ \E c \in Callers, adminID \in AdminHeaders, req \in RouteRequests :
          AdminRoutes(c, adminID, req)

SpecRoutes == Init /\ [][NextRoutes]_vars

\* the timestamps a limiter holds for a caller, none when the caller has no entry
WindowOf(rl, c) == IF c \in DOMAIN rl.ipLimits THEN rl.ipLimits[c] ELSE << >>

\* C37: serving a request of caller A changes, in either limiter, neither the timestamp
\* sequence of another caller B nor the decision a later request of B would receive;
\* a public request leaves the administrative limiter as it is, and an administrative
\* request leaves the public limiter as it is.
C37_PerCallerIsolation ==
    [][served' # served =>
          /\ \A b \in Callers \ {httpResp'.ip} :
                /\ (b \in DOMAIN publicRateLimiter'.ipLimits)
                      = (b \in DOMAIN publicRateLimiter.ipLimits)
                /\ (b \in DOMAIN adminRateLimiter'.ipLimits)
                      = (b \in DOMAIN adminRateLimiter.ipLimits)
                /\ WindowOf(publicRateLimiter', b) = WindowOf(publicRateLimiter, b)
                /\ WindowOf(adminRateLimiter', b) = WindowOf(adminRateLimiter, b)
                /\ \A t \in clock..MaxTime :
                      /\ RateLimit(publicRateLimiter', b, t).next
                            = RateLimit(publicRateLimiter, b, t).next
                      /\ RateLimit(adminRateLimiter', b, t).next
                            = RateLimit(adminRateLimiter, b, t).next
          /\ httpResp'.group = "public" => adminRateLimiter' = adminRateLimiter
          /\ httpResp'.group = "admin" => publicRateLimiter' = publicRateLimiter]_vars

\* C37 witness: caller ipA has just been denied on an administrative route, its window
\* there being full, while caller ipB holds a timestamp in the same limiter and the
\* public limiter holds none for ipA.
C37_Witness ==
    /\ httpResp.group = "admin" /\ httpResp.ip = "ipA"
    /\ httpResp.status = StatusTooManyRequests
    /\ Len(WindowOf(adminRateLimiter, "ipA")) = AdminMaxRequests
    /\ Len(WindowOf(adminRateLimiter, "ipB")) = 1
    /\ WindowOf(publicRateLimiter, "ipA") = << >>

\* C39: a request to an administrative route without an admin identifier is answered
\* 401 before the limiter is evaluated: no timestamp is appended to any window of
\* either limiter, and registrations, organizations and the audit log stay as they are.
C39_UnauthenticatedNotCounted ==
    [][(served' # served /\ httpResp'.group = "admin" /\ httpResp'.adminID = "") =>
          /\ httpResp'.status = StatusUnauthorized
          /\ adminRateLimiter' = adminRateLimiter
          /\ publicRateLimiter' = publicRateLimiter
          /\ UNCHANGED svcVars]_vars

\* C39 witness: a caller whose administrative window is full has just sent a request
\* without an admin identifier and was answered 401.
C39_Witness ==
    /\ httpResp.group = "admin" /\ httpResp.adminID = ""
    /\ httpResp.status = StatusUnauthorized
    /\ Len(WindowOf(adminRateLimiter, httpResp.ip)) = AdminMaxRequests
    /\ \A i \in 1..AdminMaxRequests :
          After(WindowOf(adminRateLimiter, httpResp.ip)[i], clock - WindowLength)
    /\ Len(ngoRegistrations) = 1

\* C38: the limiter's mutex covers only the admission decision: a goroutine whose
\* request was admitted and is at c.Next(), running its downstream handlers, no longer
\* holds the mutex, so no other goroutine is kept waiting at rl.Lock() meanwhile.
C38_LockReleasedBeforeHandler ==
    \A p \in Procs :
        pc[p] = "next" =>
            /\ mutex # p
            /\ \A q \in Procs \ {p} : pc[q] = "lock" => MutexFree

-----------------------------------------------------------------------------
(* ExpenseService.RegisterExpense run by concurrent goroutines. The service takes no
   lock, so the scan that adds up the expenses and the append are steps of their own;
   the append is taken as one step, splitting it only adds interleavings. Each
   goroutine serves one request. Amounts are integers. *)

MaxReceipts == 2   \* MockPaymentConfirmation stops succeeding once this many receipts exist

ErrNGONotOfDonation == "esta ONG nao esta associada a esta doacao"
ErrDonationNotCompleted == "so e possivel registrar gastos para doacoes confirmadas"
ErrExceedsBalance == "valor excede o saldo disponivel da doacao"

ExpenseRequests ==
    {[DonationID |-> d, NGOID |-> n, Amount |-> a] :
        d \in DonationIDs, n \in {1, 2}, a \in {30, 50}}

\* DonationService.MockPaymentConfirmation: the donation becomes completed, gets a
\* transaction hash and a receipt (the mocked resource usages are not modelled)
MockPaymentConfirmation(donationID, ch, ich) ==
    LET i == IndexOfID(dsDonations, donationID)
    IN  IF i = 0
        THEN /\ call' = Call("MockPaymentConfirmation", donationID, EmptyString,
                             DonationResponse(0, ""), ErrDonationNotFound)
             /\ UNCHANGED <<svcVars, rlVars, fnVars, rtVars, exVars, goVars, apVars>>
        ELSE /\ Len(dsReceipts) < MaxReceipts
             /\ LET transactionHash == generateMockTransactionHash(ch)
                IN  /\ dsDonations' = [dsDonations EXCEPT
                                          ![i].Status = "completed",
                                          ![i].TransactionHash = transactionHash]
                    /\ dsReceipts' =
                          Append(dsReceipts,
                                 [ID |-> Len(dsReceipts) + 1, DonationID |-> donationID,
                                  Amount |-> dsDonations[i].Amount,
                                  TransactionHash |-> transactionHash,
                                  IPFSHash |-> MockIPFSHash(ich)])
             /\ call' = Call("MockPaymentConfirmation", donationID, EmptyString,
                             DonationResponse(donationID, "completed"), NoError)
             /\ UNCHANGED <<ngoRegistrations, ngos, auditLogs, dsNgos, expenses,
                            rlVars, fnVars, rtVars, exVars, goVars, apVars>>

RECURSIVE TotalExpenses(_, _)
\* the loop adding up the amounts of the expenses of a donation
TotalExpenses(list, donationID) ==
    IF list = << >> THEN 0
    ELSE (IF Head(list).DonationID = donationID THEN Head(list).Amount ELSE 0)
         + TotalExpenses(Tail(list), donationID)

\* the expense RegisterExpense stores: pendente, no receipt yet
NewExpense(expenseID, req) ==
    [ID |-> expenseID, DonationID |-> req.DonationID, NGOID |-> req.NGOID,
     Amount |-> req.Amount, ReceiptIPFS |-> EmptyString, BlockchainRef |-> EmptyString,
     Status |-> "pendente"]

\* models.ExpenseResponse of a stored expense
ExpenseResponse(expense) ==
    [ID |-> expense.ID, DonationID |-> expense.DonationID, NGOID |-> expense.NGOID,
     Amount |-> expense.Amount, Status |-> expense.Status]

\* the request arrives
ExpBegin(g, req) ==
    /\ epc[g] = "idle"
    /\ ereq' = [ereq EXCEPT ![g] = req]
    /\ epc' = [epc EXCEPT ![g] = "find"]
    /\ UNCHANGED <<svcVars, call, eloc, eret, rlVars, fnVars, rtVars, goVars, apVars>>

\* the scan of s.donationSvc.donations and the tests of the organization and the status
ExpFind(g) ==
    /\ epc[g] = "find"
    /\ LET i == IndexOfID(dsDonations, ereq[g].DonationID)
           fail(err) ==
               /\ eret' = [eret EXCEPT ![g] = [resp |-> ZeroExpenseResponse, err |-> err]]
               /\ epc' = [epc EXCEPT ![g] = "done"]
               /\ UNCHANGED eloc
       IN  IF i = 0 THEN fail(ErrDonationNotFound)
           ELSE IF dsDonations[i].NGOID # ereq[g].NGOID THEN fail(ErrNGONotOfDonation)
           ELSE IF dsDonations[i].Status # "completed" THEN fail(ErrDonationNotCompleted)
           ELSE /\ eloc' = [eloc EXCEPT ![g].donation = dsDonations[i]]
                /\ epc' = [epc EXCEPT ![g] = "sum"]
                /\ UNCHANGED eret
    /\ UNCHANGED <<svcVars, call, ereq, rlVars, fnVars, rtVars, goVars, apVars>>

\* the scan of s.expenses adding up totalExpenses, and the test against the remainder
ExpSum(g) ==
    /\ epc[g] = "sum"
    /\ LET totalExpenses == TotalExpenses(expenses, ereq[g].DonationID)
           remainingAmount == eloc[g].donation.Amount - totalExpenses
       IN  IF ereq[g].Amount > remainingAmount
           THEN /\ eret' = [eret EXCEPT ![g] =
                               [resp |-> ZeroExpenseResponse, err |-> ErrExceedsBalance]]
                /\ epc' = [epc EXCEPT ![g] = "done"]
                /\ UNCHANGED eloc
           ELSE /\ eloc' = [eloc EXCEPT ![g].totalExpenses = totalExpenses]
                /\ epc' = [epc EXCEPT ![g] = "append"]
                /\ UNCHANGED eret
    /\ UNCHANGED <<svcVars, call, ereq, rlVars, fnVars, rtVars, goVars, apVars>>

\* expenseID := uint(len(s.expenses) + 1), the append, and the return
ExpAppend(g) ==
    /\ epc[g] = "append"
    /\ LET expenseID == Len(expenses) + 1
           expense == NewExpense(expenseID, ereq[g])
       IN  /\ expenses' = Append(expenses, expense)
           /\ eloc' = [eloc EXCEPT ![g].expenseID = expenseID]
           /\ eret' = [eret EXCEPT ![g] = [resp |-> ExpenseResponse(expense), err |-> NoError]]
    /\ epc' = [epc EXCEPT ![g] = "done"]
    /\ UNCHANGED <<ngoRegistrations, ngos, auditLogs, dsNgos, dsDonations, dsReceipts,
                   call, ereq, rlVars, fnVars, rtVars, goVars, apVars>>

NextExpense ==
    \/ \E req \in DonationRequests : ProcessDonation(req)
    \/ \E id \in DonationIDs, ch \in TxHashChars, ich \in IpfsHashChars :
          MockPaymentConfirmation(id, ch, ich)
    \/ \E g \in Procs, req \in ExpenseRequests : ExpBegin(g, req)
    \/ \E g \in Procs : ExpFind(g)
    \/ \E g \in Procs : ExpSum(g)
    \/ \E g \in Procs : ExpAppend(g)

SpecExpense == Init /\ [][NextExpense]_vars

\* C40: every registered expense is charged to an existing donation that is completed
\* and belongs to the expense's organization; the amounts of the expenses charged to a
\* donation never add up to more than the donation's amount, also when RegisterExpense
\* calls run concurrently; and a RegisterExpense that returns an error leaves the list
\* of expenses as it was.
C40_ExpenseBudget ==
    /\ [](\A k \in 1..Len(expenses) :
             \E i \in 1..Len(dsDonations) :
                /\ dsDonations[i].ID = expenses[k].DonationID
                /\ dsDonations[i].Status = "completed"
                /\ dsDonations[i].NGOID = expenses[k].NGOID)
    /\ [](\A i \in 1..Len(dsDonations) :
             TotalExpenses(expenses, dsDonations[i].ID) <= dsDonations[i].Amount)
    /\ [][\A g \in Procs :
             (epc[g] # "done" /\ epc'[g] = "done" /\ eret'[g].err # NoError) =>
                expenses' = expenses]_vars

====
